---- MODULE Spec2Model ----
(***************************************************************************)
(* Changelog section locator and merger of generate-changelog              *)
(* (file-utils: extractVersionSection, readChangelogVersionSection,        *)
(* buildChangelogContent).                                                 *)
(*                                                                         *)
(* A string is a sequence of one-character strings.  The alphabet is the   *)
(* set of characters occurring in LinePool and Entries; its white space    *)
(* (\s of the regular expressions, and what trim() strips) is the blank    *)
(* and the newline.                                                        *)
(***************************************************************************)
EXTENDS Integers, Sequences, FiniteSets, TLC

VARIABLES fileState, fileContent, version, sectionContent, prevState,
          prevContent, history, budget,
          env, context, pc, steps, calls, outputs, failed, provided, commits,
          changelogEntry, updatedContent, pub, versionFile,
          clock, refs, invocations

vars == <<fileState, fileContent, version, sectionContent, prevState,
          prevContent, history, budget,
          env, context, pc, steps, calls, outputs, failed, provided, commits,
          changelogEntry, updatedContent, pub, versionFile,
          clock, refs, invocations>>

(***************************************************************************)
(* Bounds                                                                  *)
(***************************************************************************)
\* number of lines of the changelog file a run starts from
MaxLines == 3
\* number of consecutive runs that start from an absent changelog file
MaxMerges == 3
\* number of commits in an answer of the commit provider
MaxCommits == 2
\* number of clock values Date.now() can give
MaxClock == 2
MaxInvocations == 2

(***************************************************************************)
(* Characters and string helpers (JavaScript String methods)               *)
(***************************************************************************)
NL == "\n"
SPC == " "
Null == <<"null">>
NLNL == <<NL, NL>>
H2 == <<"#", "#", SPC>>
H1 == <<"#", SPC>>
ChangelogTitle == <<"#", SPC, "C", "h", "a", "n", "g", "e", "l", "o", "g">>

SetMin(S) == CHOOSE x \in S : \A y \in S : x <= y
SetMax(S) == CHOOSE x \in S : \A y \in S : x >= y

IsWs(c) == c \in {SPC, NL}

\* white space removed at the start only
trimStart(s) ==
  LET keep == {i \in 1..Len(s) : ~IsWs(s[i])}
  IN  IF keep = {} THEN <<>> ELSE SubSeq(s, SetMin(keep), Len(s))

trim(s) ==
  LET keep == {i \in 1..Len(s) : ~IsWs(s[i])}
  IN  IF keep = {} THEN <<>> ELSE SubSeq(s, SetMin(keep), SetMax(keep))

\* s.substring(a, b) with 0-based offsets
substring(s, a, b) == SubSeq(s, a + 1, b)

\* the characters of p stand in s from the 1-based position i
HasAt(s, i, p) == i + Len(p) - 1 <= Len(s) /\ SubSeq(s, i, i + Len(p) - 1) = p

startsWith(s, p) == HasAt(s, 1, p)

includes(s, p) == \E i \in 1..Len(s) : HasAt(s, i, p)

RECURSIVE split(_)
split(s) ==
  LET nls == {i \in 1..Len(s) : s[i] = NL}
  IN  IF nls = {} THEN <<s>>
      ELSE <<SubSeq(s, 1, SetMin(nls) - 1)>>
             \o split(SubSeq(s, SetMin(nls) + 1, Len(s)))

RECURSIVE join(_)
join(lines) ==
  IF lines = <<>> THEN <<>>
  ELSE IF Len(lines) = 1 THEN lines[1]
  ELSE lines[1] \o <<NL>> \o join(Tail(lines))

\* lines.splice(at, 0, item) with a 0-based index
splice(lines, at, item) ==
  SubSeq(lines, 1, at) \o <<item>> \o SubSeq(lines, at + 1, Len(lines))

\* the last title line instead of the first
findLastHeaderIndex(lines) ==
  LET hs == {i \in 1..Len(lines) : startsWith(lines[i], H1)}
  IN  IF hs = {} THEN -1 ELSE SetMax(hs) - 1

\* lines.findIndex((line) => line.startsWith("# ")), 0-based, -1 if none
findHeaderIndex(lines) ==
  LET hs == {i \in 1..Len(lines) : startsWith(lines[i], H1)}
  IN  IF hs = {} THEN -1 ELSE SetMin(hs) - 1

(***************************************************************************)
(* Regular expressions                                                     *)
(***************************************************************************)
\* ^ and $ under the m flag, at the 1-based position i of the next character
BOL(s, i) == i = 1 \/ s[i - 1] = NL
EOL(s, i) == i = Len(s) + 1 \/ s[i] = NL

RegExpSpecial ==
  {".", "*", "+", "?", "^", "$", "{", "}", "(", ")", "|", "[", "]", "\\"}

\* the label used as a pattern without escaping
unescapedRegExp(v) == v

\* version.replace(/[.*+?^${}()|[\]\\]/g, "\\$&")
RECURSIVE escapeRegExp(_)
escapeRegExp(v) ==
  IF v = <<>> THEN <<>>
  ELSE (IF Head(v) \in RegExpSpecial THEN <<"\\", Head(v)>> ELSE <<Head(v)>>)
         \o escapeRegExp(Tail(v))

\* new RegExp(source): an escaped character is a literal, a bare dot matches
\* every character but the newline, every other character of the alphabet
\* is a literal
RECURSIVE RegExpAtoms(_)
RegExpAtoms(src) ==
  IF src = <<>> THEN <<>>
  ELSE IF Head(src) = "\\" /\ Len(src) >= 2
       THEN <<[lit |-> TRUE, ch |-> src[2]]>>
              \o RegExpAtoms(SubSeq(src, 3, Len(src)))
  ELSE IF Head(src) = "."
       THEN <<[lit |-> FALSE, ch |-> "."]>> \o RegExpAtoms(Tail(src))
  ELSE <<[lit |-> TRUE, ch |-> Head(src)]>> \o RegExpAtoms(Tail(src))

AtomMatches(a, c) == IF a.lit THEN c = a.ch ELSE c # NL

AtomsMatchAt(s, i, atoms) ==
  /\ i + Len(atoms) - 1 <= Len(s)
  /\ \A k \in 1..Len(atoms) : AtomMatches(atoms[k], s[i + k - 1])

NoMatch == [index |-> -1, len |-> 0]

\* `^## ${escaped}\\s*$` with flag m matches at the 1-based position i with
\* j characters taken by \s*
HeaderMatchAt(s, i, atoms, j) ==
  /\ BOL(s, i)
  /\ HasAt(s, i, H2)
  /\ AtomsMatchAt(s, i + 3, atoms)
  /\ i + 2 + Len(atoms) + j <= Len(s)
  /\ \A k \in 1..j : IsWs(s[i + 2 + Len(atoms) + k])
  /\ EOL(s, i + 3 + Len(atoms) + j)

\* content.match(versionHeaderRegex): leftmost match, \s* greedy
matchVersionHeader(s, ver) ==
  LET atoms == RegExpAtoms(escapeRegExp(ver))
      starts == {i \in 1..Len(s) :
                   \E j \in 0..Len(s) : HeaderMatchAt(s, i, atoms, j)}
  IN  IF starts = {} THEN NoMatch
      ELSE LET i == SetMin(starts)
               j == SetMax({k \in 0..Len(s) : HeaderMatchAt(s, i, atoms, k)})
           IN  [index |-> i - 1, len |-> 3 + Len(atoms) + j]

\* afterHeader.match(/^## /m): 0-based index of the leftmost match, -1 if none
matchNextSection(s) ==
  LET starts == {i \in 1..Len(s) : BOL(s, i) /\ HasAt(s, i, H2)}
  IN  IF starts = {} THEN -1 ELSE SetMin(starts) - 1

\* /^##\s+(.+?)(?:\n|$)/m matches at i with k characters taken by \s+
EntryMatchAt(s, i, k) ==
  /\ BOL(s, i)
  /\ HasAt(s, i, <<"#", "#">>)
  /\ i + 2 + k <= Len(s)
  /\ \A m \in 0..(k - 1) : IsWs(s[i + 2 + m])
  /\ s[i + 2 + k] # NL

\* newEntry.match(/^##\s+(.+?)(?:\n|$)/m): the capture group of the leftmost
\* match (\s+ greedy, .+? lazy up to the end of the line), Null if none
matchEntryVersion(s) ==
  LET starts == {i \in 1..Len(s) :
                   \E k \in 1..Len(s) : EntryMatchAt(s, i, k)}
  IN  IF starts = {} THEN Null
      ELSE LET i == SetMin(starts)
               k == SetMax({m \in 1..Len(s) : EntryMatchAt(s, i, m)})
               p == i + 2 + k
               e == SetMin({q \in (p + 1)..(Len(s) + 1) : EOL(s, q)})
           IN  SubSeq(s, p, e - 1)

(***************************************************************************)
(* SectionLocator: extractVersionSection, readChangelogVersionSection      *)
(***************************************************************************)
Thrown == <<"throw">>

\* the body taken to run to the end of the document
extractVersionSectionToEnd(changelogContent, ver) ==
  IF changelogContent = <<>> THEN Null
  ELSE IF ver = <<>> THEN Thrown
  ELSE LET match == matchVersionHeader(changelogContent, ver)
       IN  IF match.index = -1 THEN Null
           ELSE trim(substring(changelogContent, match.index + match.len,
                               Len(changelogContent)))

extractVersionSection(changelogContent, ver) ==
  IF changelogContent = <<>> THEN Null
  ELSE IF ver = <<>> THEN Thrown
  ELSE LET match == matchVersionHeader(changelogContent, ver)
       IN  IF match.index = -1 THEN Null
           ELSE LET afterHeader == substring(changelogContent,
                                             match.index + match.len,
                                             Len(changelogContent))
                    next == matchNextSection(afterHeader)
                IN  IF next # -1 THEN trim(substring(afterHeader, 0, next))
                    ELSE trim(afterHeader)

\* the errors of access() and readFile() are not caught
readChangelogVersionSectionUncaught(state, content, ver) ==
  IF state # "present" THEN Thrown
  ELSE LET r == extractVersionSection(content, ver)
       IN  IF r = Thrown THEN Null ELSE r

\* access() fails with ENOENT, readFile() fails with EACCES: both are caught,
\* and so is the error thrown for a missing version
readChangelogVersionSection(state, content, ver) ==
  IF state # "present" THEN Null
  ELSE LET r == extractVersionSection(content, ver)
       IN  IF r = Thrown THEN Null ELSE r

(***************************************************************************)
(* ChangelogMerger: buildChangelogContent                                  *)
(***************************************************************************)
\* const version = versionMatch ? versionMatch[1].trim() : null
extractEntryVersion(entry) ==
  LET versionMatch == matchEntryVersion(entry)
  IN  IF versionMatch # Null THEN trim(versionMatch) ELSE Null

\* version && existingContent.includes(`## ${version}`)
versionExists(existingContent, ver) ==
  ver # Null /\ ver # <<>> /\ includes(existingContent, H2 \o ver)

\* the fresh document without trimming the entry
freshContentUntrimmed(entry) == ChangelogTitle \o NLNL \o entry \o NLNL

\* `# Changelog\n\n${newEntry.trim()}\n\n`
freshContent(entry) == ChangelogTitle \o NLNL \o trim(entry) \o NLNL

\* every section taken for the last one
endOfSectionAtEnd(existingContent, match) == Len(existingContent)

\* the section taken to end with its header
endOfSectionAtHeader(existingContent, match) == match.index + match.len

endOfSection(existingContent, match) ==
  LET afterHeader == substring(existingContent, match.index + match.len,
                               Len(existingContent))
      next == matchNextSection(afterHeader)
  IN  IF next # -1 THEN match.index + match.len + next
      ELSE Len(existingContent)

\* the replacement written over the start of the document
replaceSectionFromStart(existingContent, match, entry) ==
  trim(entry) \o NLNL
    \o substring(existingContent, match.index + match.len,
                 Len(existingContent))

replaceSection(existingContent, match, entry) ==
  substring(existingContent, 0, match.index)
    \o trim(entry) \o NLNL
    \o substring(existingContent, endOfSection(existingContent, match),
                 Len(existingContent))

\* while (insertIndex < lines.length && lines[insertIndex].trim() === "")
\*   insertIndex++
skipBlankLines(lines, insertIndex) ==
  SetMin({k \in insertIndex..Len(lines) :
            k = Len(lines) \/ trim(lines[k + 1]) # <<>>})

\* the `else` of `if (match && match.index !== undefined)`
fallbackPrepend(existingContent, entry) ==
  LET lines == split(existingContent)
      headerIndex == findHeaderIndex(lines)
      insertIndex == IF headerIndex # -1 THEN headerIndex + 1 ELSE 0
  IN  join(splice(lines, skipBlankLines(lines, insertIndex), trim(entry)))

\* the `else` of `if (versionExists)`
insertNewSection(existingContent, entry) ==
  LET lines == split(existingContent)
      headerIndex == findHeaderIndex(lines)
  IN  IF headerIndex # -1
      THEN join(splice(lines, skipBlankLines(lines, headerIndex + 1),
                       trim(entry)))
      ELSE ChangelogTitle \o NLNL \o trim(entry) \o NLNL \o existingContent

buildChangelogContent(state, content, entry) ==
  LET fileExists == state = "present"
      existingContent == IF fileExists THEN content ELSE <<>>
      ver == extractEntryVersion(entry)
  IN  IF ~fileExists \/ trim(existingContent) = <<>>
      THEN freshContent(entry)
      ELSE IF versionExists(existingContent, ver)
           THEN LET match == matchVersionHeader(existingContent, ver)
                IN  IF match.index # -1
                    THEN replaceSection(existingContent, match, entry)
                    ELSE fallbackPrepend(existingContent, entry)
           ELSE insertNewSection(existingContent, entry)

(***************************************************************************)
(* Inputs: changelog files and generated entries                           *)
(***************************************************************************)
V10 == <<"1", ".", "0">>
V10b == <<"1", ".", "0", "b">>
V1x0 == <<"1", "x", "0">>
V2 == <<"2">>
V3 == <<"3">>
ItemA == <<"-", SPC, "a">>
ItemB == <<"-", SPC, "b">>
ItemC == <<"-", SPC, "c">>

\* the lines a changelog file is made of: a title, a blank line, a line of
\* white space, a list item, and header lines whose labels are a label with
\* a dot, the same with trailing white space, an extension of it, and the
\* same with the dot replaced
LinePool ==
  { <<"#", SPC, "T">>, <<>>, <<SPC>>, ItemA,
    H2 \o V10, H2 \o V10 \o <<SPC>>, H2 \o V10b, H2 \o V1x0 }

\* a longer file: a title and two sections, the first with two blank lines
\* between its items
SampleDocs ==
  { join(<< <<"#", SPC, "T">>, <<>>, H2 \o V10, <<>>, ItemA, <<>>, <<>>,
             ItemA, <<>>, H2 \o V1x0, <<>>, ItemA >>) }

InitDocs ==
  {join(ls) : ls \in UNION {[1..n -> LinePool] : n \in 1..MaxLines}}
    \cup SampleDocs

\* entries that are a header line `## <label>` followed by body text
WellFormedEntries ==
  { H2 \o V10 \o <<NL>> \o ItemB,
    H2 \o V2 \o NLNL \o ItemB,
    H2 \o V10,
    H2 \o V3 \o <<NL>> \o ItemB \o NLNL \o ItemC,
    H2 \o V10b \o <<NL>> \o ItemB }

\* the same with surrounding white space, and entries that are not well
\* formed: no header, an indented header, two blanks after ##, text before
\* the header, two headers
Entries ==
  WellFormedEntries \cup
  { H2 \o V10 \o <<SPC, NL, NL>> \o ItemB \o <<NL>>,
    ItemB,
    <<NL, SPC>> \o H2 \o V2 \o <<NL>> \o ItemB \o <<SPC, NL>>,
    <<"#", "#", SPC, SPC>> \o V10 \o <<NL>> \o ItemB,
    ItemC \o <<NL>> \o H2 \o V10 \o <<NL>> \o ItemB,
    H2 \o V10 \o <<NL>> \o ItemB \o <<NL>> \o H2 \o V2 \o <<NL>> \o ItemC }

Versions == {V10, V10b, V1x0, V2}

(***************************************************************************)
(* Inputs of a run: environment, trigger context, answers of the remote    *)
(* services (index: run; git-utils: getNewCommits; changelog-generator:    *)
(* generateChangelogEntry; pr-manager: createOrUpdatePR)                   *)
(***************************************************************************)
\* an absent number (undefined, null) is falsy, as 0 is
NoNumber == 0
PRNumber == 7
NewPRNumber == 8
Zeros == "0000000000000000000000000000000000000000"
NoError == ""

\* process.env: an unset variable and an empty one are both falsy
Envs ==
  [OPENROUTER_API_KEY : {"", "key"},
   GITHUB_TOKEN : {"", "token"},
   VERSION_FILE : {"", "VERSION", "package.json"}]

ValidEnv ==
  [OPENROUTER_API_KEY |-> "key", GITHUB_TOKEN |-> "token",
   VERSION_FILE |-> "VERSION"]

Context(eventName, ref, prNumber, before, after, input) ==
  [eventName |-> eventName, ref |-> ref, prNumber |-> prNumber,
   before |-> before, after |-> after, input |-> input]

\* github.context: pull request events with and without a number in the
\* payload, pushes to three branches with the before and after references
\* present or not, manual dispatches with and without the pr-number input,
\* and scheduled runs
Contexts ==
  {Context("pull_request", "refs/pull/7/merge", n, "", "", NoNumber) :
     n \in {NoNumber, PRNumber}}
  \cup
  {Context("push", r, NoNumber, b, a, NoNumber) :
     r \in {"refs/heads/main", "refs/heads/master", "refs/heads/dev"},
     b \in {"", Zeros, "sha-before"}, a \in {"", "sha-after"}}
  \cup
  {Context("workflow_dispatch", "refs/heads/main", NoNumber, "", "", n) :
     n \in {NoNumber, PRNumber}}
  \cup
  {Context("schedule", "refs/heads/main", NoNumber, "", "", NoNumber)}

\* the token is not checked
requiredInputButToken(e) ==
  IF e.OPENROUTER_API_KEY = "" THEN "OPENROUTER_API_KEY is required"
  ELSE IF e.VERSION_FILE = "" THEN "VERSION_FILE is required"
  ELSE NoError

\* the first of the three checks that fails gives the message, none gives ""
requiredInput(e) ==
  IF e.OPENROUTER_API_KEY = "" THEN "OPENROUTER_API_KEY is required"
  ELSE IF e.GITHUB_TOKEN = "" THEN "GITHUB_TOKEN is required"
  ELSE IF e.VERSION_FILE = "" THEN "VERSION_FILE is required"
  ELSE NoError

isPREvent(ctx) == ctx.eventName = "pull_request"

\* a push to any branch
isPush(ctx) == ctx.eventName = "push"

isDirectPush(ctx) ==
  /\ ctx.eventName = "push"
  /\ ctx.ref \in {"refs/heads/main", "refs/heads/master"}

(***************************************************************************)
(* The version file (version-utils: readVersionFromFile).  A file is       *)
(* absent or present; a present file has a text, and json is what          *)
(* JSON.parse makes of that text: nothing (a SyntaxError), null, or an     *)
(* object with or without a version string.                                *)
(***************************************************************************)
NoJson == [valid |-> FALSE, object |-> FALSE, hasVersion |-> FALSE,
           version |-> <<>>]
JsonNull == [NoJson EXCEPT !.valid = TRUE]
JsonObject == [JsonNull EXCEPT !.object = TRUE]
JsonVersion(v) == [JsonObject EXCEPT !.hasVersion = TRUE, !.version = v]

VersionFile(state, text, json) == [state |-> state, text |-> text, json |-> json]

\* a version, the same with blanks around it and a newline after it, the
\* same followed by other lines, the same after a blank line, nothing, and
\* white space only
TextFiles ==
  { V10,
    <<SPC, SPC>> \o V10 \o <<SPC, SPC, NL>>,
    V10 \o <<NL, "x", NL>>,
    <<NL>> \o V10,
    <<>>,
    <<SPC, NL, SPC, NL>> }

\* what JSON.parse gives for the package.json files: a syntax error, null,
\* an object without version, and objects whose version is "", blanks, a
\* version, a version with blanks around it
JsonValues ==
  { NoJson, JsonNull, JsonObject, JsonVersion(<<>>),
    JsonVersion(<<SPC, SPC>>), JsonVersion(V10),
    JsonVersion(<<SPC, SPC>> \o V10 \o <<SPC, SPC>>) }

\* versionFilePath.endsWith("package.json"), for the paths of Envs
isPackageJson(path) == path = "package.json"

\* the files that can be at the path
VersionFilesAt(path) ==
  {VersionFile("ENOENT", <<>>, NoJson)}
  \cup
  (IF isPackageJson(path)
   THEN {VersionFile("present", <<"{">>, j) : j \in JsonValues}
   ELSE {VersionFile("present", t, NoJson) : t \in TextFiles})

\* the message of the error thrown for a cause; the errors thrown inside the
\* try block of readVersionFromFile are caught and thrown again as
\* `Failed to read version from <path>: <error>`
versionError(path, cause) ==
  IF isPackageJson(path)
  THEN CASE cause = "read" ->
              "Failed to read version from package.json: Error: ENOENT: no such file or directory"
         [] cause = "json" ->
              "Failed to read version from package.json: Error: Invalid JSON in package.json. Your project must have proper versioning."
         [] cause = "nofield" ->
              "Failed to read version from package.json: Error: No 'version' field found in package.json. Your project must have proper versioning."
         [] cause = "emptyfield" ->
              "Failed to read version from package.json: Error: Empty 'version' field in package.json. Your project must have proper versioning."
  ELSE CASE cause = "read" ->
              "Failed to read version from VERSION: Error: ENOENT: no such file or directory"
         [] cause = "emptyfile" ->
              "Failed to read version from VERSION: Error: Empty version file: VERSION. Your project must have proper versioning."

\* the empty version gets the message of the missing field
parseVersionFromPackageJsonOneMessage(path, json) ==
  IF ~json.valid THEN [throw |-> versionError(path, "json"), value |-> Null]
  ELSE IF ~json.object \/ ~json.hasVersion \/ json.version = <<>>
          \/ trim(json.version) = <<>>
  THEN [throw |-> versionError(path, "nofield"), value |-> Null]
  ELSE [throw |-> NoError, value |-> trim(json.version)]

\* lines 30-59: !json?.version holds for null, for an object without the
\* field and for the empty string
parseVersionFromPackageJson(path, json) ==
  IF ~json.valid THEN [throw |-> versionError(path, "json"), value |-> Null]
  ELSE IF ~json.object \/ ~json.hasVersion \/ json.version = <<>>
  THEN [throw |-> versionError(path, "nofield"), value |-> Null]
  ELSE IF trim(json.version) = <<>>
  THEN [throw |-> versionError(path, "emptyfield"), value |-> Null]
  ELSE [throw |-> NoError, value |-> trim(json.version)]

\* the first line that is not blank is taken
parseVersionFromTextFileSkipBlank(path, content) ==
  LET lines == split(content)
      full == {k \in 1..Len(lines) : trim(lines[k]) # <<>>}
  IN  IF full = {}
      THEN [throw |-> versionError(path, "emptyfile"), value |-> Null]
      ELSE [throw |-> NoError, value |-> trim(lines[SetMin(full)])]

\* lines 64-75: the first line, trimmed
parseVersionFromTextFile(path, content) ==
  LET lines == split(content)
      firstLine == trim(lines[1])
  IN  IF firstLine = <<>>
      THEN [throw |-> versionError(path, "emptyfile"), value |-> Null]
      ELSE [throw |-> NoError, value |-> firstLine]

\* lines 7-25: the version of the file, or the error thrown
readVersionFromFile(path, file) ==
  IF file.state # "present"
  THEN [throw |-> versionError(path, "read"), value |-> Null]
  ELSE IF isPackageJson(path)
       THEN parseVersionFromPackageJson(path, file.json)
       ELSE parseVersionFromTextFile(path, file.text)

\* a call of a remote service; error is the message of its failure, "" if it
\* succeeded, kind what repos.getContent answered with
Call(op) ==
  [op |-> op, ref |-> <<>>, sha |-> "", from |-> "", base |-> <<>>,
   num |-> NoNumber, error |-> NoError, kind |-> ""]

NoCall == Call("none")

\* messages of the errors a remote service answers with
RemoteErrors == {"Not Found", "Server Error"}

\* the all-zero before reference is compared from like any other
commitsRequestNoSentinel(ctx, isPR) ==
  IF isPR
  THEN IF ctx.prNumber = NoNumber
       THEN [throw |-> "PR number not found in context", call |-> NoCall]
       ELSE [throw |-> NoError,
             call |-> [Call("pulls.listCommits") EXCEPT !.num = ctx.prNumber]]
  ELSE IF ctx.after = ""
       THEN [throw |-> "After SHA not found in push payload", call |-> NoCall]
       ELSE IF ctx.before = ""
            THEN [throw |-> NoError,
                  call |-> [Call("repos.getCommit") EXCEPT !.sha = ctx.after]]
            ELSE [throw |-> NoError,
                  call |-> [Call("repos.compareCommits")
                              EXCEPT !.from = ctx.before, !.sha = ctx.after]]

\* the before reference is looked at first, and only its absence
commitsRequestBeforeFirst(ctx, isPR) ==
  IF isPR
  THEN IF ctx.prNumber = NoNumber
       THEN [throw |-> "PR number not found in context", call |-> NoCall]
       ELSE [throw |-> NoError,
             call |-> [Call("pulls.listCommits") EXCEPT !.num = ctx.prNumber]]
  ELSE IF ctx.before = ""
       THEN [throw |-> NoError,
             call |-> [Call("repos.getCommit") EXCEPT !.sha = ctx.after]]
       ELSE IF ctx.after = ""
            THEN [throw |-> "After SHA not found in push payload",
                  call |-> NoCall]
            ELSE [throw |-> NoError,
                  call |-> [Call("repos.compareCommits")
                              EXCEPT !.from = ctx.before, !.sha = ctx.after]]

\* getNewCommits up to its provider call: the error thrown, or the call made
commitsRequest(ctx, isPR) ==
  IF isPR
  THEN IF ctx.prNumber = NoNumber
       THEN [throw |-> "PR number not found in context", call |-> NoCall]
       ELSE [throw |-> NoError,
             call |-> [Call("pulls.listCommits") EXCEPT !.num = ctx.prNumber]]
  ELSE IF ctx.after = ""
       THEN [throw |-> "After SHA not found in push payload", call |-> NoCall]
       ELSE IF ctx.before = "" \/ ctx.before = Zeros
            THEN [throw |-> NoError,
                  call |-> [Call("repos.getCommit") EXCEPT !.sha = ctx.after]]
            ELSE [throw |-> NoError,
                  call |-> [Call("repos.compareCommits")
                              EXCEPT !.from = ctx.before, !.sha = ctx.after]]

CommitPool == {"c1", "c2"}

\* lists of distinct commits
CommitLists ==
  {l \in UNION {[1..n -> CommitPool] : n \in 0..MaxCommits} :
     \A i, j \in 1..Len(l) : l[i] = l[j] => i = j}

\* what the provider answers to a call of getNewCommits: a commit for
\* getCommit, a list of commits for listCommits and compareCommits
CommitAnswers(op) ==
  {[error |-> m, data |-> <<>>] : m \in RemoteErrors}
  \cup
  {[error |-> NoError, data |-> d] :
     d \in (IF op = "repos.getCommit" THEN CommitPool ELSE CommitLists)}

\* the error is replaced by one of getNewCommits
rethrowWrapped(error) ==
  IF error = NoError THEN NoError ELSE "Error fetching commits"

\* the catch of getNewCommits logs the error and throws it again
rethrow(error) == error

\* what getNewCommits returns for the data of the answer
commitsResult(op, data) == IF op = "repos.getCommit" THEN <<data>> ELSE data

\* texts of the generation service: an entry, an entry with white space
\* around it, white space only
AITexts ==
  { H2 \o V10 \o <<NL>> \o ItemB,
    <<NL>> \o H2 \o V2 \o NLNL \o ItemB \o <<NL>>,
    <<SPC, NL>> }

\* answers of client.chat.send: a rejection, a message without content, a
\* string, a list of parts whose first part is a text or an image
AIResponses ==
  { [kind |-> "reject", type |-> "", text |-> <<>>],
    [kind |-> "string", type |-> "", text |-> <<>>],
    [kind |-> "parts", type |-> "image_url", text |-> <<>>],
    [kind |-> "parts", type |-> "text", text |-> <<>>] }
  \cup {[kind |-> "string", type |-> "", text |-> t] : t \in AITexts}
  \cup {[kind |-> "parts", type |-> "text", text |-> t] : t \in AITexts}

\* generateChangelogEntry for an answer of the service: the error thrown or
\* the entry returned
generateChangelogEntry(resp) ==
  IF resp.kind = "reject"
  THEN [throw |-> "OpenRouter request failed", value |-> <<>>]
  ELSE IF resp.kind = "string" /\ resp.text = <<>>
  THEN [throw |-> "No content received from OpenRouter AI", value |-> <<>>]
  ELSE LET changelog == IF resp.kind = "string" THEN resp.text
                        ELSE IF resp.type = "text" THEN resp.text ELSE <<>>
       IN  IF changelog = <<>>
           THEN [throw |-> "No valid changelog content received from OpenRouter AI",
                 value |-> <<>>]
           ELSE [throw |-> NoError, value |-> trim(changelog)]

\* branches of the repository
BranchMain == <<"main">>
BranchFeature == <<"feature">>
\* `changelog-${Date.now()}`
BranchName(now) == <<"changelog-", now>>

\* local variables of createOrUpdatePR
NoPub ==
  [isUpdate |-> FALSE, prNumber |-> NoNumber, base |-> <<>>, branch |-> <<>>,
   baseSha |-> "", fileSha |-> "", result |-> NoNumber]

\* isUpdate && prNumber
updatesPR(p) == p.isUpdate /\ p.prNumber # NoNumber

\* answers of pulls.get, repos.get, git.getRef, git.createRef,
\* createOrUpdateFileContents and pulls.create
PullAnswers ==
  {[error |-> m, base |-> <<>>, head |-> <<>>] : m \in RemoteErrors}
  \cup {[error |-> NoError, base |-> BranchMain, head |-> BranchFeature]}

RepoAnswers ==
  {[error |-> m, default_branch |-> <<>>] : m \in RemoteErrors}
  \cup {[error |-> NoError, default_branch |-> BranchMain]}

RefAnswers ==
  {[error |-> m, sha |-> ""] : m \in RemoteErrors}
  \cup {[error |-> NoError, sha |-> "sha-base"]}

WriteAnswers == {[error |-> m] : m \in RemoteErrors \cup {NoError}}

CreateAnswers ==
  {[error |-> m, number |-> NoNumber] : m \in RemoteErrors}
  \cup {[error |-> NoError, number |-> NewPRNumber]}

\* answers of repos.getContent: a file with its sha, the listing of a
\* directory, an error
ContentAnswers ==
  {[error |-> m, kind |-> "", sha |-> ""] : m \in RemoteErrors}
  \cup {[error |-> NoError, kind |-> "file", sha |-> "sha-file"],
        [error |-> NoError, kind |-> "directory", sha |-> ""]}

\* the sha is never kept
fileShaDropped(ans) == ""

\* the sha kept from an answer of repos.getContent: that of a file; every
\* error is caught and leaves it undefined
fileShaOf(ans) ==
  IF ans.error = NoError /\ ans.kind = "file" THEN ans.sha ELSE ""

\* a step of run and the message of the error it ended with, "" if none
Step(name, error) == [step |-> name, error |-> error]

\* core.setOutput
Output(name, value) == [name |-> name, value |-> value]

(***************************************************************************)
(* State machine.  fileState/fileContent is the changelog file of the      *)
(* checkout a run works on; a run reads the section of a version           *)
(* (readChangelogVersionSection) and builds the new content                *)
(* (buildChangelogContent), which the publisher commits to the changelog   *)
(* path, so that it is the file the next run starts from.                  *)
(***************************************************************************)
TypeOK ==
  /\ fileState \in {"present", "ENOENT", "EACCES"}
  /\ prevState \in {"none", "present", "ENOENT", "EACCES"}
  /\ Len(history) <= budget

\* concurrent invocations of createOrUpdatePR in create mode on one
\* repository: its clock, its branches, and the local variables of each
Invocations == 1..MaxInvocations

RefExists == "Reference already exists"

NoInvocation ==
  [pc |-> "idle", base |-> <<>>, branch |-> <<>>, baseSha |-> "",
   attempt |-> <<>>, error |-> NoError]

repoVars == <<clock, refs, invocations>>

\* no concurrent invocation is in progress
RepoIdle ==
  /\ clock = 1
  /\ refs = {BranchMain}
  /\ invocations = [i \in Invocations |-> NoInvocation]

\* no run of the action is in progress
RunIdle ==
  /\ env = ValidEnv
  /\ context = Context("schedule", "refs/heads/main", NoNumber, "", "", NoNumber)
  /\ pc = "idle"
  /\ steps = <<>>
  /\ calls = <<>>
  /\ outputs = <<>>
  /\ failed = NoError
  /\ provided = <<>>
  /\ commits = <<>>
  /\ changelogEntry = <<>>
  /\ updatedContent = <<>>
  /\ pub = NoPub
  /\ versionFile = VersionFile("present", V10, NoJson)

runVars == <<env, context, pc, steps, calls, outputs, failed, provided,
             commits, changelogEntry, updatedContent, pub, versionFile>>

mergeVars == <<prevState, prevContent, history, budget>>

Init ==
  /\ fileState \in {"present", "ENOENT", "EACCES"}
  /\ fileContent \in (IF fileState = "present" THEN InitDocs ELSE {<<>>})
  /\ version = Null
  /\ sectionContent = Null
  /\ prevState = "none"
  /\ prevContent = <<>>
  /\ history = <<>>
  /\ budget = 1
  /\ RunIdle
  /\ RepoIdle

InitSeq ==
  /\ fileState = "ENOENT"
  /\ fileContent = <<>>
  /\ version = Null
  /\ sectionContent = Null
  /\ prevState = "none"
  /\ prevContent = <<>>
  /\ history = <<>>
  /\ budget = MaxMerges
  /\ RunIdle
  /\ RepoIdle

ReadSection(ver) ==
  /\ Len(history) < budget
  /\ version = Null
  /\ version' = ver
  /\ sectionContent' = readChangelogVersionSection(fileState, fileContent, ver)
  /\ UNCHANGED <<fileState, fileContent, prevState, prevContent, history,
                 budget>>
  /\ UNCHANGED runVars
  /\ UNCHANGED repoVars

Merge(entry) ==
  /\ Len(history) < budget
  /\ fileContent' = buildChangelogContent(fileState, fileContent, entry)
  /\ fileState' = "present"
  /\ prevState' = fileState
  /\ prevContent' = fileContent
  /\ history' = Append(history, entry)
  /\ version' = Null
  /\ sectionContent' = Null
  /\ UNCHANGED budget
  /\ UNCHANGED runVars
  /\ UNCHANGED repoVars

Next ==
  \/ \E ver \in Versions : ReadSection(ver)
  \/ \E entry \in Entries : Merge(entry)

Spec == Init /\ [][Next]_vars

SpecSeq == InitSeq /\ [][Next]_vars

(***************************************************************************)
(* One run of the action (index: run).  pc is the await the run stands at; *)
(* an action is the code from one await to the next: the call awaited, its *)
(* answer, and the synchronous code that follows.  steps lists the steps   *)
(* of run that ended, calls the calls of remote services that were made,   *)
(* outputs the calls of core.setOutput, failed the message given to        *)
(* core.setFailed.                                                         *)
(***************************************************************************)
\* the changelog files a run finds: the longer file, an empty file, and a
\* file without a section of the version of the version file
RunDocs ==
  SampleDocs \cup
  { <<>>,
    join(<< <<"#", SPC, "T">>, <<>>, H2 \o V1x0, ItemA >>) }

InitRun ==
  /\ fileState \in {"present", "ENOENT", "EACCES"}
  /\ fileContent \in (IF fileState = "present" THEN RunDocs ELSE {<<>>})
  /\ version = Null
  /\ sectionContent = Null
  /\ prevState = "none"
  /\ prevContent = <<>>
  /\ history = <<>>
  /\ budget = 0
  /\ env \in Envs
  /\ context \in Contexts
  /\ pc = "start"
  /\ steps = <<>>
  /\ calls = <<>>
  /\ outputs = <<>>
  /\ failed = NoError
  /\ provided = <<>>
  /\ commits = <<>>
  /\ changelogEntry = <<>>
  /\ updatedContent = <<>>
  /\ pub = NoPub
  /\ versionFile \in VersionFilesAt(env.VERSION_FILE)
  /\ RepoIdle

\* lines 12-28: the inputs are read and checked
RunStart ==
  /\ pc = "start"
  /\ LET msg == requiredInput(env)
     IN  IF msg # NoError
         THEN pc' = "done" /\ failed' = msg
         ELSE pc' = "readVersionFromFile" /\ UNCHANGED failed
  /\ UNCHANGED <<versionFile, repoVars>>
  /\ UNCHANGED <<fileState, fileContent, version, sectionContent, mergeVars,
                 env, context, steps, calls, outputs, provided, commits,
                 changelogEntry, updatedContent, pub>>

\* lines 31-52: the version is read, then the trigger is looked at
RunReadVersion ==
  /\ pc = "readVersionFromFile"
  /\ LET r == readVersionFromFile(env.VERSION_FILE, versionFile)
     IN
       /\ steps' = Append(steps, Step("readVersionFromFile", r.throw))
       /\ IF r.throw # NoError
          THEN /\ failed' = r.throw
               /\ pc' = "done"
               /\ UNCHANGED <<version, outputs>>
          ELSE /\ version' = r.value
               /\ UNCHANGED failed
               /\ IF ~isPREvent(context) /\ ~isDirectPush(context)
                  THEN /\ outputs' = Append(outputs,
                                            Output("changelog-updated", "false"))
                       /\ pc' = "done"
                  ELSE /\ pc' = "getNewCommits"
                       /\ UNCHANGED outputs
  /\ UNCHANGED <<versionFile, repoVars>>
  /\ UNCHANGED <<fileState, fileContent, sectionContent, mergeVars, env,
                 context, calls, provided, commits, changelogEntry,
                 updatedContent, pub>>

\* lines 55-63 and getNewCommits
RunGetNewCommits ==
  /\ pc = "getNewCommits"
  /\ LET req == commitsRequest(context, isPREvent(context))
     IN  IF req.throw # NoError
         THEN /\ steps' = Append(steps, Step("getNewCommits", req.throw))
              /\ failed' = req.throw
              /\ pc' = "done"
              /\ UNCHANGED <<calls, provided, commits, outputs>>
         ELSE \E ans \in CommitAnswers(req.call.op) :
                /\ calls' = Append(calls, [req.call EXCEPT !.error = ans.error])
                /\ steps' = Append(steps, Step("getNewCommits",
                                               rethrow(ans.error)))
                /\ IF ans.error # NoError
                   THEN /\ failed' = rethrow(ans.error)
                        /\ pc' = "done"
                        /\ UNCHANGED <<provided, commits, outputs>>
                   ELSE /\ provided' = ans.data
                        /\ commits' = commitsResult(req.call.op, ans.data)
                        /\ UNCHANGED failed
                        /\ IF commits' = <<>>
                           THEN /\ outputs' =
                                     Append(outputs,
                                            Output("changelog-updated", "false"))
                                /\ pc' = "done"
                           ELSE /\ pc' = "readChangelogVersionSection"
                                /\ UNCHANGED outputs
  /\ UNCHANGED <<versionFile, repoVars>>
  /\ UNCHANGED <<fileState, fileContent, version, sectionContent, mergeVars,
                 env, context, changelogEntry, updatedContent, pub>>

\* lines 66-69
RunReadSection ==
  /\ pc = "readChangelogVersionSection"
  /\ sectionContent' =
       readChangelogVersionSection(fileState, fileContent, version)
  /\ steps' = Append(steps, Step("readChangelogVersionSection", NoError))
  /\ pc' = "generateChangelogEntry"
  /\ UNCHANGED <<versionFile, repoVars>>
  /\ UNCHANGED <<fileState, fileContent, version, mergeVars, env, context,
                 calls, outputs, failed, provided, commits, changelogEntry,
                 updatedContent, pub>>

\* lines 72-82 and generateChangelogEntry
RunGenerate ==
  /\ pc = "generateChangelogEntry"
  /\ \E resp \in AIResponses :
       LET r == generateChangelogEntry(resp)
       IN  /\ calls' = Append(calls,
                 [Call("chat.send") EXCEPT
                    !.error = IF resp.kind = "reject" THEN r.throw ELSE NoError])
           /\ steps' = Append(steps, Step("generateChangelogEntry", r.throw))
           /\ IF r.throw # NoError
              THEN /\ failed' = r.throw
                   /\ pc' = "done"
                   /\ UNCHANGED changelogEntry
              ELSE /\ changelogEntry' = r.value
                   /\ pc' = "buildChangelogContent"
                   /\ UNCHANGED failed
  /\ UNCHANGED <<versionFile, repoVars>>
  /\ UNCHANGED <<fileState, fileContent, version, sectionContent, mergeVars,
                 env, context, outputs, provided, commits, updatedContent, pub>>

\* lines 85-118 up to the first call of createOrUpdatePR
RunBuild ==
  /\ pc = "buildChangelogContent"
  /\ updatedContent' = buildChangelogContent(fileState, fileContent,
                                             changelogEntry)
  /\ steps' = Append(steps, Step("buildChangelogContent", NoError))
  /\ IF isPREvent(context) /\ context.prNumber = NoNumber
     THEN /\ failed' = "PR number not found in context"
          /\ pc' = "done"
          /\ UNCHANGED pub
     ELSE /\ pub' = IF isPREvent(context)
                    THEN [NoPub EXCEPT !.isUpdate = TRUE,
                                       !.prNumber = context.prNumber]
                    ELSE NoPub
          /\ pc' = IF updatesPR(pub') THEN "pulls.get" ELSE "repos.get"
          /\ UNCHANGED failed
  /\ UNCHANGED <<versionFile, repoVars>>
  /\ UNCHANGED <<fileState, fileContent, version, sectionContent, mergeVars,
                 env, context, calls, outputs, provided, commits,
                 changelogEntry>>

\* the error of createOrUpdatePR is lost
PublishSwallows(msg) ==
  /\ steps' = Append(steps, Step("createOrUpdatePR", msg))
  /\ failed' = NoError
  /\ pc' = "done"
  /\ UNCHANGED <<pub, outputs>>

\* an error thrown by createOrUpdatePR reaches the catch of run
PublishThrows(msg) ==
  /\ steps' = Append(steps, Step("createOrUpdatePR", msg))
  /\ failed' = msg
  /\ pc' = "done"
  /\ UNCHANGED <<pub, outputs>>

\* the pr-number output takes the number passed to createOrUpdatePR
PublishReturnsGivenNumber(number) ==
  /\ pub' = [pub EXCEPT !.result = number]
  /\ steps' = Append(steps, Step("createOrUpdatePR", NoError))
  /\ outputs' = outputs \o << Output("pr-number", ToString(pub.prNumber)),
                              Output("changelog-updated", "true") >>
  /\ pc' = "done"
  /\ UNCHANGED failed

\* createOrUpdatePR returns the number, lines 106, 117 and 120 set the outputs
PublishReturns(number) ==
  /\ pub' = [pub EXCEPT !.result = number]
  /\ steps' = Append(steps, Step("createOrUpdatePR", NoError))
  /\ outputs' = outputs \o << Output("pr-number", ToString(number)),
                              Output("changelog-updated", "true") >>
  /\ pc' = "done"
  /\ UNCHANGED failed

\* update mode: pulls.get gives the base and the head branch of the request
PullsGet ==
  /\ pc = "pulls.get"
  /\ \E ans \in PullAnswers :
       /\ calls' = Append(calls, [Call("pulls.get") EXCEPT
                                    !.num = pub.prNumber, !.error = ans.error])
       /\ IF ans.error # NoError
          THEN PublishThrows(ans.error)
          ELSE /\ pub' = [pub EXCEPT !.base = ans.base, !.branch = ans.head]
               /\ pc' = "repos.getContent"
               /\ UNCHANGED <<steps, failed, outputs>>
  /\ UNCHANGED <<versionFile, repoVars>>
  /\ UNCHANGED <<fileState, fileContent, version, sectionContent, mergeVars,
                 env, context, provided, commits, changelogEntry,
                 updatedContent>>

\* create mode: repos.get gives the default branch, then the branch is named
ReposGet ==
  /\ pc = "repos.get"
  /\ \E ans \in RepoAnswers :
       /\ calls' = Append(calls, [Call("repos.get") EXCEPT !.error = ans.error])
       /\ IF ans.error # NoError
          THEN PublishThrows(ans.error)
          ELSE /\ \E now \in 1..MaxClock :
                    pub' = [pub EXCEPT !.base = ans.default_branch,
                                       !.branch = BranchName(now)]
               /\ pc' = "git.getRef"
               /\ UNCHANGED <<steps, failed, outputs>>
  /\ UNCHANGED <<versionFile, repoVars>>
  /\ UNCHANGED <<fileState, fileContent, version, sectionContent, mergeVars,
                 env, context, provided, commits, changelogEntry,
                 updatedContent>>

\* create mode: the tip of the default branch
GetRef ==
  /\ pc = "git.getRef"
  /\ \E ans \in RefAnswers :
       /\ calls' = Append(calls, [Call("git.getRef") EXCEPT
                                    !.ref = pub.base, !.error = ans.error])
       /\ IF ans.error # NoError
          THEN PublishThrows(ans.error)
          ELSE /\ pub' = [pub EXCEPT !.baseSha = ans.sha]
               /\ pc' = "git.createRef"
               /\ UNCHANGED <<steps, failed, outputs>>
  /\ UNCHANGED <<versionFile, repoVars>>
  /\ UNCHANGED <<fileState, fileContent, version, sectionContent, mergeVars,
                 env, context, provided, commits, changelogEntry,
                 updatedContent>>

\* create mode: the new branch at that tip
CreateRef ==
  /\ pc = "git.createRef"
  /\ \E ans \in WriteAnswers :
       /\ calls' = Append(calls, [Call("git.createRef") EXCEPT
                                    !.ref = pub.branch, !.sha = pub.baseSha,
                                    !.error = ans.error])
       /\ IF ans.error # NoError
          THEN PublishThrows(ans.error)
          ELSE /\ pc' = "repos.getContent"
               /\ UNCHANGED <<pub, steps, failed, outputs>>
  /\ UNCHANGED <<versionFile, repoVars>>
  /\ UNCHANGED <<fileState, fileContent, version, sectionContent, mergeVars,
                 env, context, provided, commits, changelogEntry,
                 updatedContent>>

\* both modes: the sha of the file on the head branch of the request (update
\* mode) or on the default branch (create mode); the catch takes every error
GetContent ==
  /\ pc = "repos.getContent"
  /\ \E ans \in ContentAnswers :
       /\ calls' = Append(calls, [Call("repos.getContent") EXCEPT
                                    !.ref = IF updatesPR(pub) THEN pub.branch
                                            ELSE pub.base,
                                    !.error = ans.error, !.kind = ans.kind])
       /\ pub' = [pub EXCEPT !.fileSha = fileShaOf(ans)]
  /\ pc' = "repos.createOrUpdateFileContents"
  /\ UNCHANGED <<versionFile, repoVars>>
  /\ UNCHANGED <<fileState, fileContent, version, sectionContent, mergeVars,
                 env, context, steps, outputs, failed, provided, commits,
                 changelogEntry, updatedContent>>

\* both modes: the content is written to the branch; update mode returns
PutContent ==
  /\ pc = "repos.createOrUpdateFileContents"
  /\ \E ans \in WriteAnswers :
       /\ calls' = Append(calls, [Call("repos.createOrUpdateFileContents")
                                    EXCEPT !.ref = pub.branch,
                                           !.sha = pub.fileSha,
                                           !.error = ans.error])
       /\ IF ans.error # NoError
          THEN PublishThrows(ans.error)
          ELSE IF updatesPR(pub)
               THEN PublishReturns(pub.prNumber)
               ELSE /\ pc' = "pulls.create"
                    /\ UNCHANGED <<pub, steps, failed, outputs>>
  /\ UNCHANGED <<versionFile, repoVars>>
  /\ UNCHANGED <<fileState, fileContent, version, sectionContent, mergeVars,
                 env, context, provided, commits, changelogEntry,
                 updatedContent>>

\* create mode: the pull request from the new branch into the default branch
PullsCreate ==
  /\ pc = "pulls.create"
  /\ \E ans \in CreateAnswers :
       /\ calls' = Append(calls, [Call("pulls.create") EXCEPT
                                    !.ref = pub.branch, !.base = pub.base,
                                    !.error = ans.error])
       /\ IF ans.error # NoError
          THEN PublishThrows(ans.error)
          ELSE PublishReturns(ans.number)
  /\ UNCHANGED <<versionFile, repoVars>>
  /\ UNCHANGED <<fileState, fileContent, version, sectionContent, mergeVars,
                 env, context, provided, commits, changelogEntry,
                 updatedContent>>

NextRun ==
  \/ RunStart
  \/ RunReadVersion
  \/ RunGetNewCommits
  \/ RunReadSection
  \/ RunGenerate
  \/ RunBuild
  \/ PullsGet
  \/ ReposGet
  \/ GetRef
  \/ CreateRef
  \/ GetContent
  \/ PutContent
  \/ PullsCreate

SpecRun == InitRun /\ [][NextRun]_vars

(***************************************************************************)
(* Concurrent create-mode invocations of createOrUpdatePR (index.ts        *)
(* 193-217) on one repository.  Each await is one step of an invocation;   *)
(* the clock is the millisecond clock that Date.now() reads, and it        *)
(* advances between steps or not at all.                                   *)
(***************************************************************************)
InitPar ==
  /\ fileState = "ENOENT"
  /\ fileContent = <<>>
  /\ version = Null
  /\ sectionContent = Null
  /\ prevState = "none"
  /\ prevContent = <<>>
  /\ history = <<>>
  /\ budget = 0
  /\ RunIdle
  /\ clock = 1
  /\ refs = {BranchMain}
  /\ invocations =
       [i \in Invocations |-> [NoInvocation EXCEPT !.pc = "repos.get"]]

\* the part of the state that the concurrent invocations leave alone
fileVars == <<fileState, fileContent, version, sectionContent>>

\* a millisecond passes
Tick ==
  /\ clock < MaxClock
  /\ clock' = clock + 1
  /\ UNCHANGED <<refs, invocations>>
  /\ UNCHANGED <<fileVars, mergeVars, runVars>>

InvocationThrows(i, msg) ==
  invocations' = [invocations EXCEPT ![i].pc = "failed", ![i].error = msg]

\* lines 195-201: the default branch, then the name from the clock
InvokeReposGet(i) ==
  /\ invocations[i].pc = "repos.get"
  /\ \E ans \in RepoAnswers :
       IF ans.error # NoError
       THEN InvocationThrows(i, ans.error)
       ELSE invocations' =
              [invocations EXCEPT ![i].base = ans.default_branch,
                                  ![i].branch = BranchName(clock),
                                  ![i].pc = "git.getRef"]
  /\ UNCHANGED <<clock, refs>>
  /\ UNCHANGED <<fileVars, mergeVars, runVars>>

\* lines 204-209: the tip of the default branch
InvokeGetRef(i) ==
  /\ invocations[i].pc = "git.getRef"
  /\ \E ans \in RefAnswers :
       IF ans.error # NoError
       THEN InvocationThrows(i, ans.error)
       ELSE invocations' = [invocations EXCEPT ![i].baseSha = ans.sha,
                                               ![i].pc = "git.createRef"]
  /\ UNCHANGED <<clock, refs>>
  /\ UNCHANGED <<fileVars, mergeVars, runVars>>

\* lines 212-217: the request to create the branch; the repository refuses
\* a name it already has
InvokeCreateRef(i) ==
  /\ invocations[i].pc = "git.createRef"
  /\ LET name == invocations[i].branch
     IN  \/ /\ name \in refs
            /\ invocations' = [invocations EXCEPT ![i].attempt = name,
                                                  ![i].pc = "failed",
                                                  ![i].error = RefExists]
            /\ UNCHANGED refs
         \/ /\ name \notin refs
            /\ \E ans \in WriteAnswers :
                 IF ans.error # NoError
                 THEN /\ invocations' =
                           [invocations EXCEPT ![i].attempt = name,
                                               ![i].pc = "failed",
                                               ![i].error = ans.error]
                      /\ UNCHANGED refs
                 ELSE /\ invocations' =
                           [invocations EXCEPT ![i].attempt = name,
                                               ![i].pc = "repos.getContent"]
                      /\ refs' = refs \cup {name}
  /\ UNCHANGED clock
  /\ UNCHANGED <<fileVars, mergeVars, runVars>>

NextPar ==
  \/ Tick
  \/ \E i \in Invocations : InvokeReposGet(i)
  \/ \E i \in Invocations : InvokeGetRef(i)
  \/ \E i \in Invocations : InvokeCreateRef(i)

SpecPar == InitPar /\ [][NextPar]_vars


(***************************************************************************)
(* Vocabulary of the properties.  D is the changelog file the last run     *)
(* started from, E the entry it merged, fileContent the result.  Sections  *)
(* are described line by line, independently of the regular expressions.   *)
(***************************************************************************)
Merged == history # <<>>
E == history[Len(history)]
D == prevContent
DPresent == prevState = "present"
DBlank == prevState \in {"ENOENT", "EACCES"} \/ trim(prevContent) = <<>>

\* 0-based offset of the first character of line k of the lines ls
RECURSIVE LineOffset(_, _)
LineOffset(ls, k) ==
  IF k = 1 THEN 0 ELSE LineOffset(ls, k - 1) + Len(ls[k - 1]) + 1

AllBlanks(s) == \A i \in 1..Len(s) : s[i] = SPC

\* the line is `## <label>` followed by optional blanks
IsHeaderLineOf(line, label) ==
  /\ startsWith(line, H2 \o label)
  /\ AllBlanks(SubSeq(line, 4 + Len(label), Len(line)))

IsHeaderLine(line) == startsWith(line, H2)

\* the lines (1-based) of s that are header lines of the label
HeaderLinesOf(s, label) ==
  {k \in 1..Len(split(s)) : IsHeaderLineOf(split(s)[k], label)}

IsSectionOf(s, label) == HeaderLinesOf(s, label) # {}

\* the first header line after line k, Len + 1 if none
NextHeaderLine(ls, k) ==
  SetMin({m \in (k + 1)..(Len(ls) + 1) : m = Len(ls) + 1 \/ IsHeaderLine(ls[m])})

\* span [headerStart, bodyEnd) of the first section of the label, 0-based
HeaderStart(s, label) == LineOffset(split(s), SetMin(HeaderLinesOf(s, label)))
BodyEnd(s, label) ==
  LET ls == split(s)
      n == NextHeaderLine(ls, SetMin(HeaderLinesOf(s, label)))
  IN  IF n = Len(ls) + 1 THEN Len(s) ELSE LineOffset(ls, n)

\* the label of an entry: what follows `##` and white space on its first line
\* that has that form, Null if it has no such line
EntryLabel(entry) ==
  LET ls == split(entry)
      hs == {k \in 1..Len(ls) :
               /\ Len(ls[k]) > 2
               /\ SubSeq(ls[k], 1, 3) = H2
               /\ trim(SubSeq(ls[k], 3, Len(ls[k]))) # <<>>}
  IN  IF hs = {} THEN Null
      ELSE trim(SubSeq(ls[SetMin(hs)], 3, Len(ls[SetMin(hs)])))

HasLabel(entry) == EntryLabel(entry) # Null

\* well-formed entry: the first line is `## <label>`, no other line starts
\* with `## `
IsWellFormed(entry) ==
  LET ls == split(entry)
  IN  /\ Len(ls[1]) > 3
      /\ IsHeaderLine(ls[1])
      /\ ~IsWs(ls[1][4])
      /\ \A k \in 2..Len(ls) : ~IsHeaderLine(ls[k])

BodyOf(entry) == join(Tail(split(entry)))

\* 1-based index of the title line of s (its first line starting with `# `),
\* 0 if it has none
TitleLine(s) ==
  LET ts == {k \in 1..Len(split(s)) :
               /\ Len(split(s)[k]) >= 2
               /\ SubSeq(split(s)[k], 1, 2) = H1}
  IN  IF ts = {} THEN 0 ELSE SetMin(ts)
HasTitle(s) == TitleLine(s) # 0

\* the first line after line k that is not blank, Len + 1 if none
FirstNonBlankAfter(ls, k) ==
  SetMin({m \in (k + 1)..(Len(ls) + 1) : m = Len(ls) + 1 \/ trim(ls[m]) # <<>>})

(***************************************************************************)
(* C1  Fresh document: when the changelog file is absent, unreadable,     *)
(* empty or white space only, the result is the title line `# Changelog`,  *)
(* one blank line, the entry trimmed, then exactly two newlines.           *)
(***************************************************************************)
C1_FreshDocument ==
  (Merged /\ DBlank) =>
     /\ split(fileContent) =
          <<ChangelogTitle, <<>>>> \o split(trim(E)) \o << <<>>, <<>> >>
     /\ fileContent = ChangelogTitle \o NLNL \o trim(E) \o NLNL

C1_Witness ==
  /\ Merged /\ DPresent /\ D # <<>> /\ trim(D) = <<>>
  /\ trim(E) # E
  /\ fileContent = ChangelogTitle \o NLNL \o trim(E) \o NLNL

(***************************************************************************)
(* C2  Insertion into a titled document: for a non-blank D with a title   *)
(* line and an entry whose label is not a section of D (or that has no     *)
(* header), the result is D up to and including the title line and the     *)
(* blank lines following it, the trimmed entry, exactly one blank line,    *)
(* then the rest of D.                                                     *)
(***************************************************************************)
C2_InsertionIntoTitled ==
  (/\ Merged /\ DPresent /\ ~DBlank /\ HasTitle(D)
   /\ (~HasLabel(E) \/ ~IsSectionOf(D, EntryLabel(E))))
  => LET ls == split(D)
         b == FirstNonBlankAfter(ls, TitleLine(D))
         head == join(SubSeq(ls, 1, b - 1) \o <<trim(E)>>)
     IN  IF b = Len(ls) + 1
         THEN \* nothing follows: the trailing newlines are left open
              fileContent \in {head, head \o <<NL>>, head \o NLNL}
         ELSE fileContent =
                join(SubSeq(ls, 1, b - 1) \o <<trim(E), <<>>>>
                       \o SubSeq(ls, b, Len(ls)))

(***************************************************************************)
(* C3  Replacement preserves everything outside the section: when the     *)
(* label of E is a section of D with span [headerStart, bodyEnd), the      *)
(* result is D[0..headerStart) + trim(E) + two newlines + D[bodyEnd..];    *)
(* when the section was the last one the result ends with exactly two      *)
(* newlines.                                                               *)
(***************************************************************************)
C3_ReplacementPreservesRest ==
  (/\ Merged /\ DPresent /\ ~DBlank /\ HasLabel(E)
   /\ IsSectionOf(D, EntryLabel(E)))
  => LET hs == HeaderStart(D, EntryLabel(E))
         be == BodyEnd(D, EntryLabel(E))
     IN  /\ fileContent = SubSeq(D, 1, hs) \o trim(E) \o NLNL
                            \o SubSeq(D, be + 1, Len(D))
         /\ be = Len(D) =>
              /\ SubSeq(fileContent, Len(fileContent) - 1, Len(fileContent))
                   = NLNL
              /\ ~IsWs(fileContent[Len(fileContent) - 2])

\* sections A, B, C with B replaced
C3_Witness ==
  /\ Merged /\ DPresent /\ HasLabel(E)
  /\ IsSectionOf(D, EntryLabel(E))
  /\ HeaderStart(D, EntryLabel(E)) > 0
  /\ BodyEnd(D, EntryLabel(E)) < Len(D)
  /\ IsHeaderLine(split(D)[1])
  /\ fileContent # D

(***************************************************************************)
(* C4  Idempotence of replacement.  As stated: whenever the label of E is  *)
(* already a section of D, merging E into the result again leaves it       *)
(* unchanged.  This fails for entries that are not well formed (two blanks *)
(* after ##, text before the header, a second header).                     *)
(***************************************************************************)
C4_IdempotenceAnyEntry ==
  (/\ Merged /\ DPresent /\ ~DBlank /\ HasLabel(E)
   /\ IsSectionOf(D, EntryLabel(E)))
  => buildChangelogContent(fileState, fileContent, E) = fileContent

\* C4 as amended: whenever the label of a well-formed entry E is already a
\* section of D, merging E into merge(D, E) again leaves it unchanged
C4_IdempotenceWellFormed ==
  (/\ Merged /\ DPresent /\ ~DBlank /\ IsWellFormed(E)
   /\ IsSectionOf(D, EntryLabel(E)))
  => buildChangelogContent(fileState, fileContent, E) = fileContent

C4_Witness ==
  /\ Merged /\ DPresent /\ ~DBlank /\ IsWellFormed(E)
  /\ IsSectionOf(D, EntryLabel(E))
  /\ BodyEnd(D, EntryLabel(E)) < Len(D)
  /\ fileContent # D
  /\ buildChangelogContent(fileState, fileContent, E) = fileContent

(***************************************************************************)
(* C5  Insertion ordering.  The new section stands immediately after the   *)
(* title block (the lines of D up to its title line and the blank lines    *)
(* directly following it; for a D without title line the synthesized title *)
(* and blank line, or the leading blank lines of D) and no section header  *)
(* stands before it.                                                       *)
(***************************************************************************)
TitleBlocks(s) ==
  LET ls == split(s)
  IN  IF HasTitle(s)
      THEN {SubSeq(ls, 1, FirstNonBlankAfter(ls, TitleLine(s)) - 1)}
      ELSE {<<ChangelogTitle, <<>>>>,
            SubSeq(ls, 1, FirstNonBlankAfter(ls, 0) - 1)}

EntryAfterTitleBlock(result, doc, entry) ==
  LET ls == split(result)
      el == split(trim(entry))
  IN  \E head \in TitleBlocks(doc) :
        /\ Len(head) + Len(el) <= Len(ls)
        /\ SubSeq(ls, 1, Len(head) + Len(el)) = head \o el
        /\ \A k \in 1..Len(head) : ~IsHeaderLine(head[k])

\* no section header of s stands before its title line
TitleBeforeSections(s) ==
  \A k \in 1..(TitleLine(s) - 1) : ~IsHeaderLine(split(s)[k])

C6_MissingTitle ==
  (/\ Merged /\ DPresent /\ ~DBlank /\ ~HasTitle(D)
   /\ (~HasLabel(E) \/ ~IsSectionOf(D, EntryLabel(E))))
  => fileContent = ChangelogTitle \o NLNL \o trim(E) \o NLNL \o D

(***************************************************************************)
(* C7  Round trip.  As stated: for every D and every well-formed E,        *)
(* locating the label of E in merge(D, E) returns the trimmed body of E.   *)
(* This fails when the entry is inserted in front of text of D that        *)
(* belongs to no section.                                                  *)
(***************************************************************************)
C7_RoundTripAnyDocument ==
  (Merged /\ IsWellFormed(E))
  => extractVersionSection(fileContent, EntryLabel(E)) = trim(BodyOf(E))

\* the first non-blank line after the title block of s (after its start when
\* s has no title line), if there is one, is a section header
SectionAtInsertionPoint(s) ==
  LET ls == split(s)
      b == FirstNonBlankAfter(ls, TitleLine(s))
  IN  b = Len(ls) + 1 \/ IsHeaderLine(ls[b])

\* C7 as amended: the round trip holds for every well-formed E and every D
\* that is absent or blank, or has the label of E as a section, or in which
\* the first non-blank line after the title block (after the start of D when
\* D has no title line) is a section header or does not exist
C7_RoundTrip ==
  (/\ Merged /\ IsWellFormed(E)
   /\ (DBlank \/ IsSectionOf(D, EntryLabel(E)) \/ SectionAtInsertionPoint(D)))
  => extractVersionSection(fileContent, EntryLabel(E)) = trim(BodyOf(E))

\* an insertion in front of an existing section, with a body to find
C7_Witness ==
  /\ Merged /\ DPresent /\ ~DBlank /\ IsWellFormed(E)
  /\ ~IsSectionOf(D, EntryLabel(E))
  /\ SectionAtInsertionPoint(D)
  /\ \E k \in 1..Len(split(D)) : IsHeaderLine(split(D)[k])
  /\ trim(BodyOf(E)) # <<>>
  /\ extractVersionSection(fileContent, EntryLabel(E)) = trim(BodyOf(E))

(***************************************************************************)
(* C8  Label-escaping safety: the locator and the replacement step treat   *)
(* the label as a literal.  A section is located for a label only if a     *)
(* line is exactly `## <label>` plus optional blanks, and what is returned *)
(* is the body of the first such line; when no line of D is a header of    *)
(* the label of E, the merge replaces nothing: all of D stays in place     *)
(* around the inserted text.                                               *)
(***************************************************************************)
\* the body of the first section of the label, line by line
SectionBody(s, label) ==
  LET ls == split(s)
      h == SetMin(HeaderLinesOf(s, label))
  IN  trim(join(SubSeq(ls, h + 1, NextHeaderLine(ls, h) - 1)))

\* r is s with text inserted at one place
IsInsertionInto(r, s) ==
  /\ Len(r) >= Len(s)
  /\ \E p \in 0..Len(s) :
       /\ SubSeq(r, 1, p) = SubSeq(s, 1, p)
       /\ SubSeq(r, Len(r) - (Len(s) - p) + 1, Len(r)) = SubSeq(s, p + 1, Len(s))

\* C8: the locator finds a section exactly for a literal header line of the
\* label and returns its body; a merge whose label is no section of D
\* replaces nothing
C8_LabelIsLiteral ==
  /\ (version # Null /\ fileState = "present") =>
       IF IsSectionOf(fileContent, version)
       THEN sectionContent = SectionBody(fileContent, version)
       ELSE sectionContent = Null
  /\ (/\ Merged /\ DPresent /\ ~DBlank /\ HasLabel(E)
      /\ ~IsSectionOf(D, EntryLabel(E)))
     => IsInsertionInto(fileContent, D)

\* the label 1.0 is looked up in a file whose only headers are 1x0 and 1.0b,
\* and nothing is found
C8_Witness ==
  /\ version = V10 /\ fileState = "present"
  /\ sectionContent = Null
  /\ \E k \in 1..Len(split(fileContent)) : split(fileContent)[k] = H2 \o V1x0
  /\ \E k \in 1..Len(split(fileContent)) : split(fileContent)[k] = H2 \o V10b

(***************************************************************************)
(* C9  Document format over sequences of merges: starting from an absent   *)
(* file, after any sequence of merges of well-formed entries the document  *)
(* is the title line `# Changelog` followed by version sections, and two   *)
(* neighbouring sections are separated by exactly one blank line.          *)
(***************************************************************************)
AllWellFormed == \A k \in 1..Len(history) : IsWellFormed(history[k])

DocumentFormat(s) ==
  LET ls == split(s)
      hs == {k \in 1..Len(ls) : IsHeaderLine(ls[k])}
  IN  /\ ls[1] = ChangelogTitle
      /\ \A k \in hs :
           (\E m \in hs : m < k) =>
              /\ ls[k - 1] = <<>>
              /\ ls[k - 2] # <<>>

\* C9: after any sequence of merges of well-formed entries from an absent
\* file, the document has the title line and exactly one blank line between
\* neighbouring sections
C9_DocumentFormat ==
  (Merged /\ AllWellFormed) => DocumentFormat(fileContent)

(***************************************************************************)
(* C10  Sections are never deleted or reordered: the sections of D whose   *)
(* label differs from the label of E are all present in the result, with   *)
(* header and body unchanged and in the same order.                        *)
(***************************************************************************)
SectionLabel(line) == trim(SubSeq(line, 4, Len(line)))

\* the sections of s in order, each with its header line and its body
Sections(s) ==
  LET ls == split(s)
      hs == {k \in 1..Len(ls) : IsHeaderLine(ls[k])}
      nth[i \in 1..Cardinality(hs)] ==
        IF i = 1 THEN SetMin(hs)
        ELSE SetMin({k \in hs : k > nth[i - 1]})
  IN  [i \in 1..Cardinality(hs) |->
         [header |-> ls[nth[i]],
          body |-> trim(join(SubSeq(ls, nth[i] + 1,
                                    NextHeaderLine(ls, nth[i]) - 1)))]]

RECURSIVE SelectOthers(_, _)
SelectOthers(secs, label) ==
  IF secs = <<>> THEN <<>>
  ELSE IF SectionLabel(Head(secs).header) = label
       THEN SelectOthers(Tail(secs), label)
       ELSE <<Head(secs)>> \o SelectOthers(Tail(secs), label)

RECURSIVE IsSubsequence(_, _)
IsSubsequence(a, b) ==
  IF a = <<>> THEN TRUE
  ELSE IF b = <<>> THEN FALSE
  ELSE IF Head(a) = Head(b) THEN IsSubsequence(Tail(a), Tail(b))
  ELSE IsSubsequence(a, Tail(b))

OtherSectionsKept ==
  IsSubsequence(SelectOthers(Sections(D), EntryLabel(E)), Sections(fileContent))

\* C10 as stated: for every document D and entry E
C10_SectionsKeptAnyTitle == (Merged /\ DPresent) => OtherSectionsKept

\* the entry has no header line, or nothing but white space in front of it
NoTextBeforeHeader(entry) ==
  HasLabel(entry) =>
    LET ls == split(entry)
    IN  /\ FirstNonBlankAfter(ls, 0) <= Len(ls)
        /\ Len(ls[FirstNonBlankAfter(ls, 0)]) > 2
        /\ SubSeq(ls[FirstNonBlankAfter(ls, 0)], 1, 3) = H2

\* C10 as amended: for every D whose title line, if it has one, is not
\* preceded by a section header, and every E that has no text in front of
\* its header line, the sections of D whose label differs from the label of
\* E are present in merge(D, E) with header and body unchanged and in the
\* same order
C10_SectionsKept ==
  (Merged /\ DPresent /\ TitleBeforeSections(D) /\ NoTextBeforeHeader(E))
  => OtherSectionsKept

\* the middle one of three sections is replaced
C10_Witness ==
  /\ Merged /\ DPresent /\ HasLabel(E)
  /\ Len(Sections(D)) = 3
  /\ SectionLabel(Sections(D)[2].header) = EntryLabel(E)
  /\ Len(SelectOthers(Sections(D), EntryLabel(E))) = 2
  /\ fileContent # D
  /\ OtherSectionsKept

(***************************************************************************)
(* C11  Section body extraction: when the file has a header line `## L`,   *)
(* the locator returns the text from the end of the first such line up to *)
(* the start of the next line beginning with `## ` (or the end of the     *)
(* file), with the white space at both ends removed and everything in     *)
(* between, blank lines included, as it is in the file; a section with no *)
(* content gives the empty string; without such a header line, or without *)
(* a readable file, the result is null.                                    *)
(***************************************************************************)
\* the text between the end of the header line of the label and the next
\* header line
RawBody(s, label) ==
  LET ls == split(s)
      h == SetMin(HeaderLinesOf(s, label))
  IN  SubSeq(s, HeaderStart(s, label) + Len(ls[h]) + 1, BodyEnd(s, label))

AllWhiteSpace(s) == \A i \in 1..Len(s) : s[i] \in {SPC, NL}

\* t is s without the white space at its two ends
IsTrimOf(t, s) ==
  /\ t = <<>> \/ (t[1] \notin {SPC, NL} /\ t[Len(t)] \notin {SPC, NL})
  /\ \E a \in 0..Len(s) :
       /\ a + Len(t) <= Len(s)
       /\ SubSeq(s, a + 1, a + Len(t)) = t
       /\ AllWhiteSpace(SubSeq(s, 1, a))
       /\ AllWhiteSpace(SubSeq(s, a + Len(t) + 1, Len(s)))

\* C11: a located section is the trimmed text between its header line and
\* the next header line; no header line of the label, or no file, gives null
C11_SectionBodyExtraction ==
  version # Null =>
    IF fileState = "present" /\ IsSectionOf(fileContent, version)
    THEN /\ sectionContent # Null
         /\ IsTrimOf(sectionContent, RawBody(fileContent, version))
         /\ \A k \in 1..Len(split(sectionContent)) :
              ~IsHeaderLine(split(sectionContent)[k])
    ELSE sectionContent = Null

\* a body of two items with two blank lines between them, followed by another
\* section, is returned with its blank lines
C11_Witness ==
  /\ version = V10 /\ fileState = "present"
  /\ IsSectionOf(fileContent, V10) /\ IsSectionOf(fileContent, V1x0)
  /\ sectionContent = ItemA \o <<NL, NL, NL>> \o ItemA

\* a section with no content gives the empty string
C11_EmptySection ==
  /\ version = V10 /\ fileState = "present"
  /\ IsSectionOf(fileContent, V10)
  /\ sectionContent = <<>>

(***************************************************************************)
(* C12  Pipeline ordering and abort: the steps of a run are, in this       *)
(* order, read version, fetch commits, read existing section, generate,    *)
(* merge, publish; a step is run only after all steps before it succeeded, *)
(* none is run twice, the remote calls of a step are made only after the   *)
(* steps before it succeeded; when a step fails the run is over, its       *)
(* failure message is the message of the error, and nothing is run or      *)
(* called afterwards.                                                      *)
(***************************************************************************)
StepOrder ==
  << "readVersionFromFile", "getNewCommits", "readChangelogVersionSection",
     "generateChangelogEntry", "buildChangelogContent", "createOrUpdatePR" >>

\* the position in StepOrder of the step that makes the remote call
StepOfCall(op) ==
  IF op \in {"pulls.listCommits", "repos.getCommit", "repos.compareCommits"}
  THEN 2
  ELSE IF op = "chat.send" THEN 4 ELSE 6

StepsInOrder ==
  /\ Len(steps) <= Len(StepOrder)
  /\ \A k \in 1..Len(steps) : steps[k].step = StepOrder[k]
  /\ \A k \in 1..(Len(steps) - 1) : steps[k].error = NoError
  /\ \A i \in 1..Len(calls) :
       LET n == StepOfCall(calls[i].op)
       IN  /\ Len(steps) >= n - 1
           /\ \A k \in 1..(n - 1) : steps[k].error = NoError
  /\ \A i, j \in 1..Len(calls) :
       i < j => StepOfCall(calls[i].op) <= StepOfCall(calls[j].op)

FailureEndsRun ==
  /\ (steps # <<>> /\ steps[Len(steps)].error # NoError)
     => (pc = "done" /\ failed = steps[Len(steps)].error)
  /\ failed # NoError => pc = "done"

\* C12: the steps are run in order, each after the success of the one
\* before, and a failure ends the run with the message of the error
C12_PipelineOrder ==
  /\ [](StepsInOrder /\ FailureEndsRun)
  /\ [][failed # NoError =>
          (steps' = steps /\ calls' = calls /\ outputs' = outputs
           /\ failed' = failed)]_vars

\* the generation failed after three steps succeeded: the run is over with
\* the message of the generator, nothing was merged or published
C12_Witness ==
  /\ Len(steps) = 4
  /\ steps[4].step = "generateChangelogEntry"
  /\ steps[4].error = "No valid changelog content received from OpenRouter AI"
  /\ failed = steps[4].error
  /\ pc = "done"
  /\ Len(calls) = 2

(***************************************************************************)
(* C13  Publish, update mode: for a pull request whose number is known the *)
(* calls of the publisher are pulls.get for that number, repos.getContent  *)
(* on the head branch of the request, and one write to that head branch,   *)
(* in this order; the write carries the sha of the file if and only if     *)
(* getContent answered with a file; the number returned, and given as the  *)
(* output pr-number, is the number of the request; repos.get, git.getRef,  *)
(* git.createRef and pulls.create are never called.                        *)
(***************************************************************************)
\* the calls made by createOrUpdatePR
PublishCalls == SelectSeq(calls, LAMBDA c : StepOfCall(c.op) = 6)

UpdateOrder ==
  << "pulls.get", "repos.getContent", "repos.createOrUpdateFileContents" >>

\* the run published, or publishes, to the pull request that triggered it
InUpdateMode == isPREvent(context) /\ context.prNumber # NoNumber

PublishSucceeded ==
  /\ Len(steps) = Len(StepOrder)
  /\ steps[Len(StepOrder)].error = NoError

\* C13: in update mode the publisher gets the request, reads the sha on its
\* head branch, writes once there with the sha that was read, and returns
\* the number of the request
C13_UpdateMode ==
  InUpdateMode =>
    LET pcs == PublishCalls
    IN  /\ Len(pcs) <= Len(UpdateOrder)
        /\ \A k \in 1..Len(pcs) : pcs[k].op = UpdateOrder[k]
        /\ Len(pcs) >= 1 => pcs[1].num = context.prNumber
        /\ Len(pcs) >= 2 => pcs[2].ref = BranchFeature
        /\ Len(pcs) >= 3 =>
             /\ pcs[3].ref = BranchFeature
             /\ pcs[3].sha = (IF pcs[2].kind = "file" THEN "sha-file" ELSE "")
        /\ PublishSucceeded =>
             /\ Len(pcs) = 3
             /\ pub.result = context.prNumber
             /\ \E k \in 1..Len(outputs) :
                  outputs[k] = Output("pr-number", ToString(context.prNumber))

\* the request was updated with the sha of the file that was on its branch
C13_Witness ==
  /\ InUpdateMode /\ PublishSucceeded
  /\ Len(PublishCalls) = 3
  /\ PublishCalls[2].kind = "file"
  /\ PublishCalls[3].sha = "sha-file"
  /\ pub.result = PRNumber

\* the request was updated where the file was missing or a directory
C13_CreatedFresh ==
  /\ InUpdateMode /\ PublishSucceeded
  /\ PublishCalls[2].kind = "directory"
  /\ PublishCalls[3].sha = ""

(***************************************************************************)
(* C14  Publish, create mode: the calls of the publisher are, in this      *)
(* order, repos.get, git.getRef for the default branch, git.createRef of   *)
(* the new branch at the sha of that tip, repos.getContent on the default  *)
(* branch, the write to the new branch, and pulls.create from the new      *)
(* branch into the default branch; a call is made only after the call      *)
(* before it succeeded, where repos.getContent may answer not found; so no *)
(* pull request is opened before the content was written, and the number   *)
(* returned is that of the pull request created.                           *)
(***************************************************************************)
CreateOrder ==
  << "repos.get", "git.getRef", "git.createRef", "repos.getContent",
     "repos.createOrUpdateFileContents", "pulls.create" >>

InCreateMode == ~isPREvent(context)

\* the call succeeded, or it is repos.getContent answering not found
Answered(c) ==
  \/ c.error = NoError
  \/ c.op = "repos.getContent" /\ c.error = "Not Found"

CreateModeOrder ==
  InCreateMode =>
    LET pcs == PublishCalls
    IN  /\ Len(pcs) <= Len(CreateOrder)
        /\ \A k \in 1..Len(pcs) : pcs[k].op = CreateOrder[k]
        /\ Len(pcs) >= 2 => pcs[2].ref = BranchMain
        /\ Len(pcs) >= 3 =>
             /\ \E now \in 1..MaxClock : pcs[3].ref = BranchName(now)
             /\ pcs[3].sha = "sha-base"
        /\ Len(pcs) >= 4 => pcs[4].ref = BranchMain
        /\ Len(pcs) >= 5 => pcs[5].ref = pcs[3].ref
        /\ Len(pcs) >= 6 =>
             /\ pcs[6].ref = pcs[3].ref /\ pcs[6].base = BranchMain
             /\ pcs[5].error = NoError
        /\ PublishSucceeded =>
             /\ Len(pcs) = 6
             /\ pcs[6].error = NoError
             /\ pub.result = NewPRNumber

\* a call is made only after the call before it was answered
EachAfterSuccess ==
  InCreateMode =>
    \A k \in 1..(Len(PublishCalls) - 1) : Answered(PublishCalls[k])

\* C14: in create mode the six calls are made in order, each after the call
\* before it succeeded or repos.getContent answered not found; the pull
\* request is opened after the write and its number is returned
C14_CreateMode == CreateModeOrder /\ EachAfterSuccess

(***************************************************************************)
(* C15  Publish fails on real lookup errors: in both modes, when           *)
(* pulls.get, repos.get, git.getRef or repos.getContent fails with an      *)
(* error other than not found, the publisher stops: the error becomes the  *)
(* failure of the run and no write and no pulls.create follows; only not   *)
(* found from repos.getContent means that the file is to be created.       *)
(***************************************************************************)
LookupOps == {"pulls.get", "repos.get", "git.getRef", "repos.getContent"}

\* C15: a lookup that fails with another error than not found is the last
\* call of the run, and the run failed with that error
C15_LookupErrorsAbort ==
  \A i \in 1..Len(calls) :
    (calls[i].op \in LookupOps /\ calls[i].error \notin {NoError, "Not Found"})
    => /\ i = Len(calls)
       /\ pc = "done"
       /\ failed = calls[i].error

(***************************************************************************)
(* C16  Manual dispatch: a run triggered by workflow_dispatch with the     *)
(* pr-number input fetches the commits of that pull request and, when all  *)
(* its steps succeed, publishes in update mode to that pull request:       *)
(* changelog-updated is true and pr-number is the number given; without    *)
(* the pr-number input the run fails before any remote call.               *)
(***************************************************************************)
ConfigValid ==
  /\ env.OPENROUTER_API_KEY # "" /\ env.GITHUB_TOKEN # ""
  /\ env.VERSION_FILE # ""
  /\ steps # <<>> => steps[1].error = NoError

HasOutput(name, value) ==
  \E k \in 1..Len(outputs) : outputs[k] = Output(name, value)

\* C16: a finished manual dispatch with a pull request number fetched the
\* commits of that request and, unless a step failed or there were no
\* commits, updated it; one without a number failed with no remote call
C16_ManualDispatch ==
  (pc = "done" /\ context.eventName = "workflow_dispatch" /\ ConfigValid)
  => IF context.input = NoNumber
     THEN failed # NoError /\ calls = <<>>
     ELSE /\ calls # <<>>
          /\ calls[1].op = "pulls.listCommits"
          /\ calls[1].num = context.input
          /\ (failed = NoError /\ commits # <<>>)
             => /\ HasOutput("changelog-updated", "true")
                /\ HasOutput("pr-number", ToString(context.input))
                /\ \A k \in 1..Len(PublishCalls) :
                     PublishCalls[k].op = UpdateOrder[k]

(***************************************************************************)
(* C17  Unsupported trigger is a clean no-op: with a valid configuration   *)
(* (the three inputs are set and the version file gives a version), a run  *)
(* whose event is no pull request event, no push to main or master and no  *)
(* manual dispatch ends without failure, with the output changelog-updated *)
(* set to false, and makes no remote call: no commit fetch, no generation, *)
(* no publish.                                                             *)
(***************************************************************************)
UnsupportedTrigger ==
  /\ context.eventName # "pull_request"
  /\ context.eventName # "workflow_dispatch"
  /\ ~(/\ context.eventName = "push"
       /\ context.ref \in {"refs/heads/main", "refs/heads/master"})

\* C17: on an unsupported trigger no step after the reading of the version
\* is run and no remote call is made; the finished run did not fail and set
\* changelog-updated to false, once
C17_UnsupportedTriggerNoOp ==
  (UnsupportedTrigger /\ ConfigValid)
  => /\ calls = <<>>
     /\ Len(steps) <= 1
     /\ failed = NoError
     /\ pc = "done" => outputs = << Output("changelog-updated", "false") >>

\* a push to another branch than main and master ended as a no-op
C17_Witness ==
  /\ pc = "done"
  /\ context.eventName = "push" /\ context.ref = "refs/heads/dev"
  /\ context.after # ""
  /\ ConfigValid
  /\ steps = << Step("readVersionFromFile", NoError) >>
  /\ outputs = << Output("changelog-updated", "false") >>

(***************************************************************************)
(* C18  Configuration errors are immediate: when the API key, the token or *)
(* the path of the version file is missing, the run fails with a message   *)
(* that names a missing input, and it neither reads the version file nor   *)
(* makes a remote call.                                                    *)
(***************************************************************************)
\* the inputs that are missing
MissingInputs ==
  {n \in {"OPENROUTER_API_KEY", "GITHUB_TOKEN", "VERSION_FILE"} : env[n] = ""}

\* the failure messages that name the input
MessageFor(n) ==
  CASE n = "OPENROUTER_API_KEY" -> "OPENROUTER_API_KEY is required"
    [] n = "GITHUB_TOKEN" -> "GITHUB_TOKEN is required"
    [] n = "VERSION_FILE" -> "VERSION_FILE is required"

\* C18: with an input missing no step is run, no call is made, no output is
\* set, and the finished run failed with the message for a missing input
C18_ConfigErrorsImmediate ==
  MissingInputs # {}
  => /\ steps = <<>> /\ calls = <<>> /\ outputs = <<>>
     /\ version = Null
     /\ pc \in {"start", "done"}
     /\ pc = "done" => \E n \in MissingInputs : failed = MessageFor(n)

\* the token alone is missing and the run failed naming it
C18_Witness ==
  /\ pc = "done"
  /\ MissingInputs = {"GITHUB_TOKEN"}
  /\ failed = "GITHUB_TOKEN is required"
  /\ steps = <<>> /\ calls = <<>>

(***************************************************************************)
(* C19  First push fetches one commit: on a push with an after reference,  *)
(* when the before reference is absent or all zeros getNewCommits makes    *)
(* one repos.getCommit call for the after reference, never a compare call, *)
(* and returns the list of that one commit; otherwise it makes one         *)
(* repos.compareCommits call from before to after and returns the commits  *)
(* of the answer in the order of the answer.                               *)
(***************************************************************************)
\* the calls made by getNewCommits
CommitCalls == SelectSeq(calls, LAMBDA c : StepOfCall(c.op) = 2)

\* getNewCommits was called for a push that has an after reference
FetchedForPush ==
  /\ Len(steps) >= 2
  /\ context.eventName = "push"
  /\ context.after # ""

FirstPush == context.before = "" \/ context.before = Zeros

FetchSucceeded == Len(steps) >= 2 /\ steps[2].error = NoError

\* C19: one getCommit for the after reference on a first push, one compare
\* from before to after otherwise, and the commits answered are returned
C19_FirstPushOneCommit ==
  FetchedForPush =>
    /\ Len(CommitCalls) = 1
    /\ IF FirstPush
       THEN /\ CommitCalls[1].op = "repos.getCommit"
            /\ CommitCalls[1].sha = context.after
            /\ FetchSucceeded => (Len(commits) = 1 /\ commits[1] = provided)
       ELSE /\ CommitCalls[1].op = "repos.compareCommits"
            /\ CommitCalls[1].from = context.before
            /\ CommitCalls[1].sha = context.after
            /\ FetchSucceeded => commits = provided

\* a first push with the all-zero before reference gave the one commit
C19_Witness ==
  /\ FetchedForPush /\ FetchSucceeded
  /\ context.before = Zeros
  /\ CommitCalls[1].op = "repos.getCommit"
  /\ commits = << "c2" >>

\* a later push gave the two commits of the comparison in their order
C19_Compared ==
  /\ FetchedForPush /\ FetchSucceeded
  /\ context.before = "sha-before"
  /\ CommitCalls[1].op = "repos.compareCommits"
  /\ provided = << "c2", "c1" >>
  /\ commits = << "c2", "c1" >>

(***************************************************************************)
(* C20  Trigger-context input errors: getNewCommits on a pull request      *)
(* event without a number, and on a push without an after reference,       *)
(* whatever the before reference is, fails with the message `PR number not *)
(* found in context`, respectively `After SHA not found in push payload`,  *)
(* and makes no provider call.                                             *)
(***************************************************************************)
\* getNewCommits was called and ended
Fetched == Len(steps) >= 2

\* C20: the fetch without a pull request number or without an after
\* reference failed with the message of the missing value, without a call
C20_TriggerContextErrors ==
  /\ (Fetched /\ context.eventName = "pull_request"
      /\ context.prNumber = NoNumber)
     => /\ steps[2].error = "PR number not found in context"
        /\ failed = "PR number not found in context"
        /\ calls = <<>>
  /\ (Fetched /\ context.eventName = "push" /\ context.after = "")
     => /\ steps[2].error = "After SHA not found in push payload"
        /\ failed = "After SHA not found in push payload"
        /\ calls = <<>>

\* a push with a before reference and no after reference failed
C20_Witness ==
  /\ Fetched
  /\ context.eventName = "push"
  /\ context.before = "sha-before" /\ context.after = ""
  /\ failed = "After SHA not found in push payload"
  /\ calls = <<>>
  /\ pc = "done"

\* a pull request event without a number failed
C20_NoNumber ==
  /\ Fetched
  /\ context.eventName = "pull_request" /\ context.prNumber = NoNumber
  /\ failed = "PR number not found in context"
  /\ calls = <<>>

(***************************************************************************)
(* C21  Commit-provider failures pass through: when the call that          *)
(* getNewCommits makes (pulls.listCommits, repos.getCommit or              *)
(* repos.compareCommits) fails, getNewCommits fails with the same error,   *)
(* returns no commits, and does not call again: it makes at most one       *)
(* provider call.                                                          *)
(***************************************************************************)
\* C21: at most one provider call is made; when it failed, the fetch ended
\* with its error, which is the failure of the run, and no commits are held
C21_ProviderFailuresPassThrough ==
  /\ Len(CommitCalls) <= 1
  /\ (CommitCalls # <<>> /\ CommitCalls[1].error # NoError)
     => /\ Fetched
        /\ steps[2].error = CommitCalls[1].error
        /\ failed = CommitCalls[1].error
        /\ commits = <<>> /\ provided = <<>>
        /\ Len(calls) = 1
        /\ pc = "done"

\* the comparison of a push failed and the run failed with its error
C21_Witness ==
  /\ Len(CommitCalls) = 1
  /\ CommitCalls[1].op = "repos.compareCommits"
  /\ CommitCalls[1].error = "Server Error"
  /\ failed = "Server Error"
  /\ commits = <<>>
  /\ pc = "done"

(***************************************************************************)
(* C22  The narrative client never emits a blank section: when             *)
(* generateChangelogEntry returns, the entry is a non-empty text without   *)
(* white space at its ends; an answer without content, without a text      *)
(* part, or with a text of white space only ends in an error, so that no   *)
(* empty entry is merged into the changelog.                               *)
(***************************************************************************)
Generated == Len(steps) >= 4 /\ steps[4].error = NoError

\* C22: an entry that was generated is not empty and is trimmed
C22_NoBlankSection ==
  Generated =>
    /\ changelogEntry # <<>>
    /\ ~IsWs(changelogEntry[1])
    /\ ~IsWs(changelogEntry[Len(changelogEntry)])

(***************************************************************************)
(* C23  Plain-text version file: for a version file that is no             *)
(* package.json, readVersionFromFile returns the first non-empty line of   *)
(* the file without the white space around it, so that blank lines before  *)
(* the version are skipped and the lines after it are ignored; it fails    *)
(* with the error of the blank file only when no line of the file has      *)
(* anything but white space.                                               *)
(***************************************************************************)
\* the version of a text file that is present was read, or failed to be
VersionReadFromText ==
  /\ steps # <<>>
  /\ env.VERSION_FILE = "VERSION"
  /\ versionFile.state = "present"

BlankFileError ==
  "Failed to read version from VERSION: Error: Empty version file: VERSION. Your project must have proper versioning."

\* the lines of the file that have more than white space
FullLines(text) ==
  {k \in 1..Len(split(text)) : ~AllWhiteSpace(split(text)[k])}

\* as stated: the first line that is not blank is the version
C23_PlainTextFirstNonEmptyLine ==
  VersionReadFromText =>
    LET lines == split(versionFile.text)
        full == FullLines(versionFile.text)
    IN  IF full # {}
        THEN /\ steps[1].error = NoError
             /\ IsTrimOf(version, lines[SetMin(full)])
        ELSE steps[1].error = BlankFileError

\* C23: the first line of the file, without the white space around it, is
\* the version, whatever follows it; when the first line is blank the read
\* fails with the error of the blank file, whatever follows it
C23_PlainTextFirstLine ==
  VersionReadFromText =>
    LET lines == split(versionFile.text)
    IN  IF ~AllWhiteSpace(lines[1])
        THEN /\ steps[1].error = NoError
             /\ version # <<>>
             /\ IsTrimOf(version, lines[1])
        ELSE /\ steps[1].error = BlankFileError
             /\ failed = BlankFileError
             /\ version = Null

\* the version was read from the first of several lines, blanks removed
C23_Witness ==
  /\ VersionReadFromText
  /\ Len(split(versionFile.text)) >= 2
  /\ versionFile.text[1] = SPC
  /\ steps[1].error = NoError
  /\ version = V10

\* a file whose version follows a blank line is read as a blank file
C23_BlankFirstLine ==
  /\ VersionReadFromText
  /\ versionFile.text = <<NL>> \o V10
  /\ failed = BlankFileError

(***************************************************************************)
(* C24  Version-parse errors are distinct and early: readVersionFromFile   *)
(* returns the version field of a JSON file without the white space around *)
(* it when the field is not blank; it fails for the causes invalid JSON,   *)
(* missing version field, blank version field (empty or white space only), *)
(* blank text file and unreadable file, and the messages of two different  *)
(* causes differ; the failure comes before any commit is fetched.          *)
(***************************************************************************)
VersionPaths == {"VERSION", "package.json"}

\* the cause for which the file at the path gives no version, "none" if it
\* is none of the five
Cause(path, file) ==
  IF file.state # "present" THEN "unreadable file"
  ELSE IF path = "package.json"
  THEN IF ~file.json.valid THEN "invalid JSON"
       ELSE IF ~file.json.object \/ ~file.json.hasVersion
       THEN "missing version field"
       ELSE IF AllWhiteSpace(file.json.version) THEN "blank version field"
       ELSE "none"
  ELSE IF AllWhiteSpace(file.text) THEN "blank text file" ELSE "none"

\* the same with the empty version string counted as a missing field
CauseByMessage(path, file) ==
  IF /\ Cause(path, file) = "blank version field"
     /\ file.json.version = <<>>
  THEN "missing version field"
  ELSE Cause(path, file)

\* the read of a file with the cause failed, before any call, and no file
\* with another cause fails with the same message
FailsDistinctly(cause(_, _)) ==
  LET c == cause(env.VERSION_FILE, versionFile)
  IN  c # "none" =>
        /\ steps[1].error # NoError
        /\ failed = steps[1].error
        /\ pc = "done"
        /\ calls = <<>>
        /\ \A p \in VersionPaths : \A f \in VersionFilesAt(p) :
             cause(p, f) \notin {"none", c}
             => readVersionFromFile(p, f).throw # steps[1].error

TrimmedVersionField ==
  (env.VERSION_FILE = "package.json"
   /\ Cause(env.VERSION_FILE, versionFile) = "none")
  => /\ steps[1].error = NoError
     /\ IsTrimOf(version, versionFile.json.version)

\* as stated: the five causes have messages that differ from one another
C24_VersionErrorsDistinctPerCause ==
  steps # <<>> => (FailsDistinctly(Cause) /\ TrimmedVersionField)

\* C24: the version field is returned trimmed; each cause fails before any
\* call, and the messages of two causes differ, where an empty version
\* string counts as a missing version field
C24_VersionErrorsDistinct ==
  steps # <<>> => (FailsDistinctly(CauseByMessage) /\ TrimmedVersionField)

\* a version field of white space only failed with its own message
C24_Witness ==
  /\ steps # <<>>
  /\ env.VERSION_FILE = "package.json"
  /\ versionFile.json = JsonVersion(<<SPC, SPC>>)
  /\ failed = versionError("package.json", "emptyfield")
  /\ calls = <<>>
  /\ pc = "done"

\* an empty version field failed with the message of the missing field
C24_EmptyField ==
  /\ steps # <<>>
  /\ env.VERSION_FILE = "package.json"
  /\ versionFile.json = JsonVersion(<<>>)
  /\ failed = versionError("package.json", "nofield")

\* a version field with blanks around it was read without them
C24_Trimmed ==
  /\ steps # <<>>
  /\ env.VERSION_FILE = "package.json"
  /\ versionFile.json = JsonVersion(<<SPC, SPC>> \o V10 \o <<SPC, SPC>>)
  /\ version = V10

(***************************************************************************)
(* C25  Locator negative results are values, not errors: when the          *)
(* changelog file does not exist, cannot be read, is empty, or has no      *)
(* header line of the version, readChangelogVersionSection returns null    *)
(* and does not throw, and the run goes on to the generation.              *)
(***************************************************************************)
\* readChangelogVersionSection was called by the run and ended
SectionRead == Len(steps) >= 3

NothingToLocate ==
  \/ fileState \in {"ENOENT", "EACCES"}
  \/ fileContent = <<>>
  \/ ~IsSectionOf(fileContent, version)

\* C25: with no file, no readable file, an empty file or no section of the
\* version, the section read is null, the step did not fail, and the run
\* went on with the generation
C25_NegativeResultsAreValues ==
  (SectionRead /\ NothingToLocate)
  => /\ sectionContent = Null
     /\ steps[3].error = NoError
     /\ Len(steps) = 3 => (failed = NoError /\ pc = "generateChangelogEntry")
     /\ Len(steps) >= 4 =>
          \E i \in 1..Len(calls) : calls[i].op = "chat.send"

\* the file could not be read, and the entry was generated all the same
C25_Witness ==
  /\ SectionRead
  /\ fileState = "EACCES"
  /\ sectionContent = Null
  /\ Generated

\* the file has no section of the version
C25_NoHeader ==
  /\ SectionRead
  /\ fileState = "present" /\ fileContent # <<>>
  /\ ~IsSectionOf(fileContent, version)
  /\ sectionContent = Null
  /\ Generated

(***************************************************************************)
(* C26  Merge is insensitive to white space around the entry: for every    *)
(* document D and every entry E, merge(D, E) = merge(D, trim(E)); an entry *)
(* whose header line is preceded by blank lines or blanks and whose label  *)
(* is a section of D replaces that section.                                *)
(***************************************************************************)
\* the entry without the white space around it
TrimOf(s) ==
  CHOOSE t \in {SubSeq(s, a, b) : a \in 1..(Len(s) + 1), b \in 0..Len(s)} :
    IsTrimOf(t, s)

\* C26: the merge of an entry is the merge of the entry without the white
\* space around it
C26_TrimInsensitive ==
  Merged => fileContent = buildChangelogContent(prevState, prevContent, TrimOf(E))

(***************************************************************************)
(* C27  One section per label: starting from an absent document, after     *)
(* any sequence of merges of entries that each carry a header line for     *)
(* their label (`##`, white space, the label), the document never has two  *)
(* header lines with the same label.                                       *)
(***************************************************************************)
\* the entry is one section: its first line is `##`, white space and a
\* label, and no other line of it has that form
CarriesHeader(entry) ==
  LET ls == split(entry)
  IN  /\ EntryLabel(ls[1]) # Null
      /\ \A k \in 2..Len(ls) : EntryLabel(ls[k]) = Null

\* C27: after merges of entries that carry a header line, no two lines of
\* the document are header lines of the same label
C27_OneSectionPerLabel ==
  (Merged /\ \A i \in 1..Len(history) : CarriesHeader(history[i]))
  => LET ls == split(fileContent)
     IN  \A j, k \in 1..Len(ls) :
           (j # k /\ EntryLabel(ls[j]) # Null)
           => EntryLabel(ls[j]) # EntryLabel(ls[k])

(***************************************************************************)
(* C28  Re-merging is a fixed point for every starting document: for       *)
(* every document D and every well-formed entry E,                         *)
(* merge(merge(D, E), E) = merge(D, E), also when the first merge was an   *)
(* insertion or the creation of the document.                              *)
(***************************************************************************)
\* C28: merging the well-formed entry just merged again changes nothing
C28_RemergeFixedPoint ==
  (Merged /\ IsWellFormed(E))
  => buildChangelogContent("present", fileContent, E) = fileContent

(***************************************************************************)
(* C29  Outputs are consistent with what happened: changelog-updated is    *)
(* "true" only if the publishing completed and pr-number was set to the    *)
(* pull request updated or created; a run that failed or skipped never     *)
(* reports "true"; changelog-updated is set at most once per run.          *)
(***************************************************************************)
ReportedUpdated == HasOutput("changelog-updated", "true")

\* the pull request the run published to: the one that triggered it, or the
\* one that pulls.create answered
PublishedTo ==
  IF InUpdateMode THEN context.prNumber ELSE pub.result

Skipped ==
  /\ pc = "done" /\ failed = NoError
  /\ Len(steps) < Len(StepOrder)

\* C29: "true" is reported only by a finished run whose six steps succeeded
\* and that set pr-number to the request published to; the flag is set at
\* most once
C29_OutputsConsistent ==
  /\ Cardinality({k \in 1..Len(outputs) :
                    outputs[k].name = "changelog-updated"}) <= 1
  /\ ReportedUpdated
     => /\ pc = "done" /\ failed = NoError
        /\ PublishSucceeded
        /\ PublishedTo # NoNumber
        /\ \A k \in 1..Len(outputs) :
             outputs[k].name = "pr-number"
             => outputs[k].value = ToString(PublishedTo)
        /\ HasOutput("pr-number", ToString(PublishedTo))
  /\ (failed # NoError \/ Skipped) => ~ReportedUpdated

\* a push created a pull request and the run reported it
C29_Witness ==
  /\ pc = "done"
  /\ isDirectPush(context)
  /\ ReportedUpdated
  /\ HasOutput("pr-number", ToString(NewPRNumber))

\* a run without new commits reported "false"
C29_Skipped ==
  /\ Skipped
  /\ Len(steps) = 2
  /\ HasOutput("changelog-updated", "false")

(***************************************************************************)
(* C30  Branch names are unique in create mode: two create-mode            *)
(* invocations on the same repository, concurrent ones included, never     *)
(* attempt to create the same branch ref.                                  *)
(***************************************************************************)
Attempted(i) == invocations[i].attempt # <<>>

\* C30: no two invocations asked git.createRef for the same branch
C30_BranchNamesUnique ==
  \A i, j \in Invocations :
    (i # j /\ Attempted(i) /\ Attempted(j))
    => invocations[i].attempt # invocations[j].attempt

====
